---- MODULE Spec2Model ----
(***************************************************************************)
(* The tool-calling orchestration loop of the LLM middleware               *)
(* (app/services/llm_service.py), the text protocol it speaks              *)
(* (app/services/prompt_builder.py), the capability registry               *)
(* (app/tools/__init__.py), the calculator capability and the /api/chat    *)
(* endpoint, as one state machine.                                         *)
(*                                                                         *)
(* Python values are encoded as records tagged by the field j:             *)
(*   JNull, JBool(b), JNum(n), JStr(s), JList(items), JObj(kv)             *)
(* where kv is a function from keys (strings) to encoded values, and       *)
(* PySet / PyComplex are Python values that json.dumps rejects.            *)
(***************************************************************************)
EXTENDS Naturals, Sequences, FiniteSets, TLC

(***************************************************************************)
(* Bounds of the model.                                                    *)
(***************************************************************************)
\* how many backend replies of one request may differ from the plain
\* calculator directive (the other replies of the request are that directive)
MaxOdd == 1

(***************************************************************************)
(* Encoded Python / JSON values.                                           *)
(***************************************************************************)
EmptyDict == [k \in {} |-> 0]
JNull == [j |-> "null"]
JBool(b) == [j |-> "bool", b |-> b]
JNum(n) == [j |-> "num", n |-> n]
JStr(s) == [j |-> "str", s |-> s]
JList(items) == [j |-> "list", items |-> items]
JObj(kv) == [j |-> "obj", kv |-> kv]
PySet == [j |-> "pyset"]
PyComplex == [j |-> "pycomplex"]
PyNone == JNull

\* dict.get(key, default)
DictGet(d, key, default) == IF key \in DOMAIN d.kv THEN d.kv[key] ELSE default

\* Python truth value of an encoded value ("if not tool_call")
Truthy(v) ==
    CASE v.j = "null" -> FALSE
      [] v.j = "bool" -> v.b
      [] v.j = "num"  -> v.n # 0
      [] v.j = "str"  -> v.s # ""
      [] v.j = "list" -> v.items # <<>>
      [] v.j = "obj"  -> DOMAIN v.kv # {}
      [] OTHER        -> TRUE

\* json.dumps(v) succeeds: every value reachable in v is a JSON type.
\* Results are at most two levels deep (a mapping of scalars or of lists).
Scalar(v) == v.j \in {"null", "bool", "num", "str"}
Serializable1(v) ==
    CASE Scalar(v)     -> TRUE
      [] v.j = "list"  -> \A i \in DOMAIN v.items : Scalar(v.items[i])
      [] v.j = "obj"   -> \A k \in DOMAIN v.kv : Scalar(v.kv[k])
      [] OTHER         -> FALSE
Serializable(v) ==
    CASE Scalar(v)     -> TRUE
      [] v.j = "list"  -> \A i \in DOMAIN v.items : Serializable1(v.items[i])
      [] v.j = "obj"   -> \A k \in DOMAIN v.kv : Serializable1(v.kv[k])
      [] OTHER         -> FALSE

(***************************************************************************)
(* Texts.  A text is a record whose field s names the raw characters.  A   *)
(* text that the protocol codec may parse also carries what json.loads     *)
(* and the two regular expressions find in it: whole is the whole trimmed  *)
(* text taken as one document, blocks the bodies of the json-tagged fenced *)
(* blocks in order of appearance, inline the brace-delimited candidates    *)
(* containing "tool_call" in order of appearance.  A fragment is NotJson   *)
(* (json.loads raises JSONDecodeError) or Json(v).                         *)
(***************************************************************************)
NotJson == [ok |-> FALSE]
Json(v) == [ok |-> TRUE, doc |-> v]
Text(s, whole, blocks, inline) ==
    [s |-> s, whole |-> whole, blocks |-> blocks, inline |-> inline]
PlainText(s) == Text(s, NotJson, <<>>, <<>>)

\* results of the codec and of the other partial operations
Found(v) == [r |-> "found", v |-> v]
Absent == [r |-> "none"]
Raised(exc, msg) == [r |-> "raise", exc |-> exc, msg |-> msg]

\* strings used as JSON string documents that contain the characters tool_call
ContainsToolCall(s) == s \in {"tool_call", "use tool_call now"}

\* lines 105-111 (and 120-126, 135-141): json.loads, then
\* `"tool_call" in data`, then data["tool_call"]; only JSONDecodeError is caught
TryDocument(frag) ==
    IF ~frag.ok THEN Absent
    ELSE LET data == frag.doc IN
         CASE data.j = "obj" ->
                  IF "tool_call" \in DOMAIN data.kv
                  THEN Found(data.kv["tool_call"]) ELSE Absent
           [] data.j = "list" ->
                  IF \E i \in DOMAIN data.items : data.items[i] = JStr("tool_call")
                  THEN Raised("TypeError", "list indices must be integers") ELSE Absent
           [] data.j = "str" ->
                  IF ContainsToolCall(data.s)
                  THEN Raised("TypeError", "string indices must be integers") ELSE Absent
           [] OTHER -> Raised("TypeError", "argument is not iterable")

\* the for loops over json_blocks and json_objects: first candidate that
\* yields a value (or raises) ends the scan
RECURSIVE ScanFrom(_, _)
ScanFrom(frags, i) ==
    IF i > Len(frags) THEN Absent
    ELSE LET r == TryDocument(frags[i]) IN
         IF r.r # "none" THEN r ELSE ScanFrom(frags, i + 1)

parse_tool_call_from_response(response_text) ==
    IF response_text.s = "" THEN Absent
    ELSE LET r1 == TryDocument(response_text.whole) IN
         IF r1.r # "none" THEN r1
         ELSE LET r2 == ScanFrom(response_text.blocks, 1) IN
              IF r2.r # "none" THEN r2
              ELSE ScanFrom(response_text.inline, 1)

\* str(tool_name) as the f-strings render it
NameRepr(tool_name) ==
    CASE tool_name.j = "str"  -> tool_name.s
      [] tool_name.j = "null" -> "None"
      [] OTHER                -> "<repr>"

\* format_tool_result: the capability name and json.dumps(result) in a json
\* fence, followed by the fixed instruction; json.dumps raises TypeError on a
\* value that is not a JSON type
format_tool_result(tool_name, result) ==
    IF Serializable(result)
    THEN Found([s |-> "tool_result", tool |-> NameRepr(tool_name), json |-> result])
    ELSE Raised("TypeError", "Object is not JSON serializable")

(***************************************************************************)
(* Capability descriptors (name, parameters in declaration order).         *)
(***************************************************************************)
Param(name, type, required) == [name |-> name, type |-> type, required |-> required]
ToolParameters(tool) ==
    CASE tool = "calculator" -> << Param("expression", "string", TRUE) >>
      [] tool = "web_search" -> << Param("query", "string", TRUE),
                                   Param("max_results", "integer", FALSE),
                                   Param("include_content", "boolean", FALSE) >>
      [] tool = "news_search" -> << Param("query", "string", TRUE),
                                    Param("max_results", "integer", FALSE),
                                    Param("time_range", "string", FALSE) >>
      [] tool = "web_scraper" -> << Param("url", "string", TRUE),
                                    Param("extract_links", "boolean", FALSE) >>
      [] tool = "web_summarizer" -> << Param("query", "string", TRUE),
                                       Param("max_sources", "integer", FALSE) >>
      [] OTHER -> << >>

\* mutant: every parameter is rendered as required
ParamLines_all_required(params) ==
    [i \in DOMAIN params |->
        [l |-> "param", name |-> params[i].name, type |-> params[i].type,
         required |-> "required"]]

ParamLines(params) ==
    [i \in DOMAIN params |->
        [l |-> "param", name |-> params[i].name, type |-> params[i].type,
         required |-> IF params[i].required THEN "required" ELSE "optional"]]

RECURSIVE ToolLines(_, _)
ToolLines(tools, i) ==
    IF i > Len(tools) THEN << >>
    ELSE << [l |-> "tool", name |-> tools[i]],
            [l |-> "description", name |-> tools[i]],
            [l |-> "parameters"] >>
         \o ParamLines(ToolParameters(tools[i]))
         \o ToolLines(tools, i + 1)

build_tools_prompt(tools) ==
    IF tools = << >> THEN << >>
    ELSE << [l |-> "tools_header"], [l |-> "tools_intro"] >>
         \o ToolLines(tools, 1)
         \o << [l |-> "usage"], [l |-> "rules"] >>

build_system_prompt_with_tools(tools) ==
    IF tools # << >>
    THEN << [l |-> "base_prompt"] >> \o build_tools_prompt(tools)
    ELSE << [l |-> "base_prompt"] >>

SystemText(lines) == [s |-> "system_prompt", lines |-> lines]

(***************************************************************************)
(* Configuration and provider resolution.                                  *)
(***************************************************************************)
MAX_TOOL_ITERATIONS == 10
PROVIDER_DEEPINFRA == "deepinfra"
PROVIDER_OPENAI == "openai"
PROVIDER_OLLAMA == "ollama"

\* Python's None where a string is expected (an unset key, an unnamed provider)
None == "<None>"

\* str.lower on the provider names used here
Lower(str) ==
    CASE str = "OLLAMA"    -> "ollama"
      [] str = "DeepInfra" -> "deepinfra"
      [] OTHER             -> str

\* `a or b` on optional strings: None and "" are false
StrOr(a, b) == IF a = None \/ a = "" THEN b ELSE a

is_deepinfra_available(settings) == settings.deepinfra_api_key # None
is_openai_available(settings) == settings.openai_api_key # None

\* DeepInfraProvider.__init__ / OpenAIProvider.__init__: `if not api_key`
ProviderInit(name, api_key) ==
    IF api_key = None \/ api_key = ""
    THEN Raised("ValueError", "API key is not set")
    ELSE Found(name)

\* mutant: the openai branch does not check that the provider is configured
get_provider_unchecked(settings, provider_name) ==
    LET provider == Lower(StrOr(provider_name, settings.default_provider)) IN
    CASE provider = PROVIDER_DEEPINFRA ->
             IF ~is_deepinfra_available(settings)
             THEN Raised("ProviderException", "DeepInfra provider not configured")
             ELSE ProviderInit(provider, settings.deepinfra_api_key)
      [] provider = PROVIDER_OPENAI -> Found(provider)
      [] provider = PROVIDER_OLLAMA -> Found(provider)
      [] OTHER -> Raised("ProviderException", "Unknown provider")

get_provider(settings, provider_name) ==
    LET provider == Lower(StrOr(provider_name, settings.default_provider)) IN
    CASE provider = PROVIDER_DEEPINFRA ->
             IF ~is_deepinfra_available(settings)
             THEN Raised("ProviderException", "DeepInfra provider not configured")
             ELSE ProviderInit(provider, settings.deepinfra_api_key)
      [] provider = PROVIDER_OPENAI ->
             IF ~is_openai_available(settings)
             THEN Raised("ProviderException", "OpenAI provider not configured")
             ELSE ProviderInit(provider, settings.openai_api_key)
      [] provider = PROVIDER_OLLAMA -> Found(provider)
      [] OTHER -> Raised("ProviderException", "Unknown provider")

(***************************************************************************)
(* Conversation seeding.                                                   *)
(***************************************************************************)
\* ChatMessage.model_dump()
model_dump(msg) ==
    [role |-> msg.role, content |-> msg.content,
     tool_call_id |-> msg.tool_call_id, name |-> msg.name]
ChatMessage(role, content) ==
    [role |-> role, content |-> content, tool_call_id |-> None, name |-> None]
Dict(role, content) == [role |-> role, content |-> content]

\* mutant: only the first message is looked at for the system role
_add_system_prompt_first_only(messages, tools) ==
    LET has_system == messages # << >> /\ messages[1].role = "system" IN
    IF ~has_system /\ tools # << >>
    THEN << Dict("system", SystemText(build_system_prompt_with_tools(tools))) >>
         \o messages
    ELSE messages

_add_system_prompt_if_needed(messages, tools) ==
    LET has_system == \E i \in DOMAIN messages : messages[i].role = "system" IN
    IF ~has_system /\ tools # << >>
    THEN << Dict("system", SystemText(build_system_prompt_with_tools(tools))) >>
         \o messages
    ELSE messages

(***************************************************************************)
(* Capabilities.                                                           *)
(***************************************************************************)
\* Python's eval(expression, {"__builtins__": {}}, {}) on the expressions used
Eval(expression) ==
    IF expression.j # "str" THEN Raised("TypeError", "eval() arg 1 must be a string")
    ELSE CASE expression.s = "2+2"   -> Found(JNum(4))
           [] expression.s = "1/0"   -> Raised("ZeroDivisionError", "division by zero")
           [] expression.s = "2 +"   -> Raised("SyntaxError", "invalid syntax")
           [] expression.s = "{1,2}" -> Found(PySet)
           [] expression.s = "1j"    -> Found(PyComplex)
           [] OTHER                  -> Raised("NameError", "name is not defined")

\* Calculator.execute(**kwargs)
CalculatorExecute(kwargs) ==
    LET expression == DictGet(kwargs, "expression", JStr("")) IN
    IF ~Truthy(expression)
    THEN Found(JObj([error |-> JStr("no expression")]))
    ELSE LET e == Eval(expression) IN
         IF e.r = "found"
         THEN Found(JObj([result |-> e.v, expression |-> expression]))
         ELSE IF e.exc \in {"SyntaxError", "ValueError", "ZeroDivisionError"}
              THEN Found(JObj([error |-> JStr(e.msg), expression |-> expression]))
              ELSE e

\* WebSearch.execute(**kwargs): every failure is caught inside and returned as
\* an error-shaped mapping; what the search finds is the environment's choice
WebSearchOutcomes(kwargs) ==
    LET query == DictGet(kwargs, "query", JStr("")) IN
    IF query.j # "str" \/ ~Truthy(query)
    THEN { Found(JObj([error |-> JStr("empty query")])) }
    ELSE { Found(JObj([query |-> query, results |-> JList(<< JStr("r1") >>)])),
           Found(JObj([query |-> query, error |-> JStr("search failed"),
                       results |-> JList(<< >>)])) }

\* the outcomes tool.execute(**tool_args) can have
ExecuteOutcomes(tool, tool_args) ==
    IF tool = "calculator" THEN { CalculatorExecute(tool_args) }
    ELSE WebSearchOutcomes(tool_args)

\* ToolRegistry.get(name) on the registry's names: dict.get raises TypeError
\* on an unhashable key, returns None on any key not present
RegistryGet(registry, name) ==
    IF name.j \in {"list", "obj"} THEN Raised("TypeError", "unhashable type")
    ELSE IF name.j = "str" /\ \E i \in DOMAIN registry : registry[i] = name.s
         THEN Found(name.s)
         ELSE Absent

\* ToolRegistry.get_all()
get_all(registry) == registry

(***************************************************************************)
(* The body of one iteration of LLMService.chat after a directive was      *)
(* parsed.  A body result carries the conversation and the audit list as   *)
(* the body left them and exc, the class of the failure that escaped the   *)
(* inner try ("" when none did).                                           *)
(***************************************************************************)
\* ToolCallInfo(tool=..., arguments=..., result=...); tool: str is validated
ToolCallInfo(tool_name, tool_args, result) ==
    [tool |-> tool_name.s, arguments |-> tool_args, result |-> result]
ToolCallInfoValid(tool_name) == tool_name.j = "str"

Body(messages, tool_calls_made, exc) ==
    [messages |-> messages, tool_calls_made |-> tool_calls_made, exc |-> exc]

\* mutant: the failure of the capability is re-raised instead of being folded
HandleToolError_reraise(msgs, tcm, tool_name, tool_args, exc, msg) ==
    Body(msgs, tcm, exc)

\* lines 204-217: the except branch of the inner try
HandleToolError(msgs, tcm, tool_name, tool_args, exc, msg) ==
    LET error_result == JObj([error |-> JStr(msg), type |-> JStr(exc)]) IN
    IF ~ToolCallInfoValid(tool_name)
    THEN Body(msgs, tcm, "ValidationError")
    ELSE Body(Append(msgs, Dict("user", format_tool_result(tool_name, error_result).v)),
              Append(tcm, ToolCallInfo(tool_name, tool_args, error_result)),
              "")

\* mutant: the result message takes the place of the last message
SaveToolCall_overwrite(msgs, tcm, tool_name, tool_args, result) ==
    IF ~ToolCallInfoValid(tool_name)
    THEN HandleToolError(msgs, tcm, tool_name, tool_args,
                         "ValidationError", "tool: input should be a valid string")
    ELSE LET tcm1 == Append(tcm, ToolCallInfo(tool_name, tool_args, result))
             fmt == format_tool_result(tool_name, result)
         IN IF fmt.r = "raise"
            THEN HandleToolError(msgs, tcm1, tool_name, tool_args, fmt.exc, fmt.msg)
            ELSE Body([msgs EXCEPT ![Len(msgs)] = Dict("user", fmt.v)], tcm1, "")

\* lines 191-202: record the result, then serialize it into the conversation
SaveToolCall(msgs, tcm, tool_name, tool_args, result) ==
    IF ~ToolCallInfoValid(tool_name)
    THEN HandleToolError(msgs, tcm, tool_name, tool_args,
                         "ValidationError", "tool: input should be a valid string")
    ELSE LET tcm1 == Append(tcm, ToolCallInfo(tool_name, tool_args, result))
             fmt == format_tool_result(tool_name, result)
         IN IF fmt.r = "raise"
            THEN HandleToolError(msgs, tcm1, tool_name, tool_args, fmt.exc, fmt.msg)
            ELSE Body(Append(msgs, Dict("user", fmt.v)), tcm1, "")

\* lines 183-186: the capability is not registered
NotFoundResult(tool_name) ==
    JObj([error |-> JStr("Tool '" \o NameRepr(tool_name) \o "' not found")])

(***************************************************************************)
(* What LLMService.chat hands back: a ChatResponse or a raised exception.  *)
(***************************************************************************)
NoOutcome == [kind |-> "none"]
ChatResponse(content, tcm, usg, prov, mdl) ==
    [kind |-> "ChatResponse", success |-> TRUE,
     message |-> ChatMessage("assistant", content),
     tool_calls_made |-> tcm, usage |-> usg, provider |-> prov, model |-> mdl]
ProviderException(message, details) ==
    [kind |-> "ProviderException", message |-> message, details |-> details]
MaxIterationsException(message, details) ==
    [kind |-> "MaxIterationsException", message |-> message, details |-> details]

\* lines 232-237: any other failure leaves chat as a ProviderException
WrapUnexpected(exc, msg) ==
    ProviderException("Chat service error: " \o msg, [error_type |-> exc])
\* mutant: no outer handler, the failure leaves chat as it was raised
RaisedByChat_bare(exc, msg) == [kind |-> exc, message |-> msg, details |-> EmptyDict]
\* lines 229-230: ProviderException and MaxIterationsException pass unchanged
RaisedByChat(exc, msg) ==
    IF exc = "ProviderException" THEN ProviderException(msg, EmptyDict)
    ELSE WrapUnexpected(exc, msg)

UsageNone == [usage |-> "None"]
UsageOf(n) == [usage |-> "snapshot", total_tokens |-> n]
NoPending == [active |-> FALSE]
NoHttp == [status |-> 0]

(***************************************************************************)
(* Backend replies.                                                        *)
(***************************************************************************)
Directive(tool_call) == JObj([tool_call |-> tool_call])
Invocation(name, args) == JObj([name |-> JStr(name), arguments |-> JObj(args)])
WholeText(s, doc) == Text(s, Json(doc), << >>, << >>)

\* the directive of the calculator case: calculator, expression "2+2"
PlainDirective ==
    WholeText("calc 2+2", Directive(Invocation("calculator", [expression |-> JStr("2+2")])))

\* replies after which the loop goes on and that differ from PlainDirective
OddReplies ==
    { WholeText("calc 1/0", Directive(Invocation("calculator", [expression |-> JStr("1/0")]))),
      WholeText("calc {1,2}", Directive(Invocation("calculator", [expression |-> JStr("{1,2}")]))),
      WholeText("calc x", Directive(Invocation("calculator", [expression |-> JStr("x")]))),
      WholeText("calc no arguments", Directive(JObj([name |-> JStr("calculator")]))),
      WholeText("nope", Directive(Invocation("nope", EmptyDict))),
      WholeText("search", Directive(Invocation("web_search", [query |-> JStr("q")]))),
      Text("fenced calc 2+2", NotJson,
           << Json(Directive(Invocation("calculator", [expression |-> JStr("2+2")]))) >>,
           << >>) }

\* replies that end the request: final answers and directives the loop cannot read
EndingReplies ==
    { PlainText("The answer is 4"),
      PlainText(""),
      WholeText("json without tool_call", JObj([answer |-> JNum(4)])),
      WholeText("empty tool_call", Directive(JObj(EmptyDict))),
      WholeText("nameless", Directive(JObj([arguments |-> JObj([expression |-> JStr("2+2")])]))),
      WholeText("name null", Directive(JObj([name |-> JNull, arguments |-> JObj(EmptyDict)]))),
      WholeText("name list", Directive(JObj([name |-> JList(<< JStr("calculator") >>),
                                             arguments |-> JObj(EmptyDict)]))),
      WholeText("tool_call string", Directive(JStr("calculator"))),
      WholeText("arguments null", Directive(JObj([name |-> JStr("calculator"),
                                                  arguments |-> JNull]))),
      WholeText("json number", JNum(5)) }

\* provider.chat: a reply with content and usage, or a failure of the client
BackendFailure == [ok |-> FALSE, exc |-> "APIError", msg |-> "connection error"]
BackendReplyOf(content) == [ok |-> TRUE, content |-> content]

(***************************************************************************)
(* State.                                                                  *)
(***************************************************************************)
VARIABLES
    settings,         \* Settings: default_provider, default_model, the API keys
    registry,         \* names of the registered capabilities, registration order
    request,          \* the ChatRequest being served
    pc,               \* where chat is: start, await_backend, await_tool, done, responded
    provider,         \* the resolved provider
    messages,         \* the conversation (local `messages` of chat)
    tool_calls_made,  \* the audit list
    usage,            \* the last usage snapshot
    iterations,       \* loop counter
    pending,          \* the invocation whose execute is awaited
    outcome,          \* what chat returned or raised
    http,             \* what the /api/chat endpoint answered
    backend_calls,    \* history: number of provider.chat invocations
    exec_calls,       \* history: number of tool.execute invocations
    sent,             \* history: the message list passed to the last provider.chat
    invocations,      \* history: the invocations the loop started to process
    last_reply,       \* history: what the last provider.chat gave (reply or failure)
    last_exec,        \* history: what the last tool.execute gave (result or failure)
    odd               \* history: replies so far that were not PlainDirective

\* WebScraperService.scrape_multiple_urls (app/services/web_scraper.py)
VARIABLES
    scrape_pc,         \* idle, gather (tasks awaited), returned
    urls,              \* the targets, in input order
    max_concurrent,    \* the argument max_concurrent
    semaphore,         \* the value of asyncio.Semaphore(max_concurrent)
    tasks,             \* per target: created, running (inside the semaphore), done
    results,           \* what gather collects: per target the task's result
    processed_results, \* the list returned
    fetched,           \* history: per target how its fetch ended
    completed          \* history: the targets in the order their tasks finished

\* ToolRegistry (app/tools/__init__.py)
VARIABLES
    _tools,            \* the dict _tools: its items in the order dict keeps them
    registered,        \* history: the capabilities passed to register, in call order
    reg_call,          \* history: the last call on the registry
    reg_return         \* what that call returned

\* the protocol codec taken alone (app/services/prompt_builder.py)
VARIABLES
    codec_pc,          \* idle, input (a text to parse), parsed
    written,           \* history: how the text was written (form and content)
    response_text,     \* the characters of the text, as tokens
    parse_result,      \* what parse_tool_call_from_response returned or raised
    prompt_pc,         \* idle, input (a capability list to render), built
    tools,             \* the capability list
    tools_prompt,      \* build_tools_prompt(tools)
    system_prompt      \* build_system_prompt_with_tools(tools)

\* one WebScraperService shared by concurrent requests
\* (app/services/web_scraper.py, app/services/web_intelligence.py)
VARIABLES
    session,           \* self.session: the client last assigned, 0 for None
    clients,           \* per httpx.AsyncClient created: how often aclose ran
    scrapers,          \* per request: where its `async with` block is
    fetches            \* history: per session.get its request, client, state

\* WebSearch.execute and NewsSearch.execute over search_and_scrape
\* (app/tools/web_search.py, app/tools/news_search.py)
VARIABLES
    search_pc,         \* idle, searched (the search results are in), formatted
    search_type,       \* web (WebSearch) or news (NewsSearch)
    search_results,    \* the results of the search, in rank order
    scraped_content,   \* what scrape_multiple_urls returned
    formatted_results  \* the list the capability returns under "results"

\* ToolExecutor.execute_tool_calls (app/services/tool_executor.py)
VARIABLES
    exec_pc,           \* idle, loop (inside the for), returned, raised
    tool_calls,        \* the argument tool_calls
    executor_results,  \* the local list `results`
    executed           \* history: the positions whose tool.execute was awaited

scrapeVars == << scrape_pc, urls, max_concurrent, semaphore, tasks, results,
                 processed_results, fetched, completed >>
registryVars == << _tools, registered, reg_call, reg_return >>
codecVars == << codec_pc, written, response_text, parse_result >>
promptVars == << prompt_pc, tools, tools_prompt, system_prompt >>
sessionVars == << session, clients, scrapers, fetches >>
searchVars == << search_pc, search_type, search_results, scraped_content,
                 formatted_results >>
executorVars == << exec_pc, tool_calls, executor_results, executed >>
chatVars == << settings, registry, request, pc, provider, messages, tool_calls_made,
               usage, iterations, pending, outcome, http, backend_calls, exec_calls,
               sent, invocations, last_reply, last_exec, odd >>

vars == << settings, registry, request, pc, provider, messages, tool_calls_made,
           usage, iterations, pending, outcome, http, backend_calls, exec_calls,
           sent, invocations, last_reply, last_exec, odd,
           scrapeVars, registryVars, codecVars, promptVars,
           sessionVars, searchVars, executorVars >>

loopVars == << iterations, backend_calls, sent >>

\* what a request served by LLMService.chat leaves alone
besideChat == << scrapeVars, registryVars, codecVars, promptVars,
                sessionVars, searchVars, executorVars >>

\* the parts of the process that a behaviour does not exercise stay as they are
ScrapeIdle ==
    /\ scrape_pc = "idle"
    /\ urls = << >>
    /\ max_concurrent = 0
    /\ semaphore = 0
    /\ tasks = << >>
    /\ results = << >>
    /\ processed_results = << >>
    /\ fetched = << >>
    /\ completed = << >>
RegistryIdle ==
    /\ _tools = << >>
    /\ registered = << >>
    /\ reg_call = [op |-> "none"]
    /\ reg_return = PyNone
CodecIdle ==
    /\ codec_pc = "idle"
    /\ written = [form |-> "none"]
    /\ response_text = << >>
    /\ parse_result = Absent
PromptIdle ==
    /\ prompt_pc = "idle"
    /\ tools = << >>
    /\ tools_prompt = << >>
    /\ system_prompt = << >>
SessionIdle ==
    /\ session = 0
    /\ clients = << >>
    /\ scrapers = << >>
    /\ fetches = << >>
SearchIdle ==
    /\ search_pc = "idle"
    /\ search_type = "none"
    /\ search_results = << >>
    /\ scraped_content = << >>
    /\ formatted_results = << >>
ExecutorIdle ==
    /\ exec_pc = "idle"
    /\ tool_calls = << >>
    /\ executor_results = << >>
    /\ executed = << >>

(***************************************************************************)
(* Initial states: a request arrives at a configured process.              *)
(***************************************************************************)
Settings(default_provider, deepinfra_api_key, openai_api_key) ==
    [default_provider |-> default_provider, default_model |-> "default-model",
     deepinfra_api_key |-> deepinfra_api_key, openai_api_key |-> openai_api_key]

ChatRequest(msgs, prov) == [messages |-> msgs, provider |-> prov, model |-> None]

Conversations ==
    { << >>,
      << ChatMessage("user", PlainText("What is 2+2?")) >>,
      << ChatMessage("system", PlainText("Be brief")),
         ChatMessage("user", PlainText("What is 2+2?")) >>,
      << ChatMessage("user", PlainText("What is 2+2?")),
         ChatMessage("system", PlainText("Be brief")) >> }

Registries == { << >>, << "calculator" >>, << "calculator", "web_search" >> }

ApiKeys == { None, "", "key" }
ProviderNamesAsked == { None, "", "ollama", "OLLAMA", "deepinfra", "openai", "mistral" }

InitRest ==
    /\ pc = "start"
    /\ provider = None
    /\ messages = << >>
    /\ tool_calls_made = << >>
    /\ usage = UsageNone
    /\ iterations = 0
    /\ pending = NoPending
    /\ outcome = NoOutcome
    /\ http = NoHttp
    /\ backend_calls = 0
    /\ exec_calls = 0
    /\ sent = << >>
    /\ invocations = << >>
    /\ last_reply = Absent
    /\ last_exec = Absent

UserOnly == << ChatMessage("user", PlainText("What is 2+2?")) >>
SystemFirst == << ChatMessage("system", PlainText("Be brief")),
                  ChatMessage("user", PlainText("What is 2+2?")) >>

\* the loop: a backend free to send any reply, a registry with and without a
\* second capability, a conversation with and without a system message
Init ==
    /\ settings = Settings(PROVIDER_OLLAMA, None, None)
    /\ registry \in { << "calculator" >>, << "calculator", "web_search" >> }
    /\ request \in { ChatRequest(c, None) : c \in {UserOnly, SystemFirst} }
    /\ odd = 0
    /\ InitRest
    /\ ScrapeIdle /\ RegistryIdle /\ CodecIdle /\ PromptIdle
    /\ SessionIdle /\ SearchIdle /\ ExecutorIdle

\* resolution and seeding: every configuration and provider name, and every
\* conversation with every registry, with a backend that only ever sends
\* PlainDirective, a reply that ends the request, or a failure
InitConfig ==
    /\ \/ /\ settings \in { Settings(d, k1, k2) :
                              d \in {PROVIDER_OLLAMA, PROVIDER_DEEPINFRA, PROVIDER_OPENAI},
                              k1 \in ApiKeys, k2 \in ApiKeys }
          /\ registry = << "calculator" >>
          /\ request \in { ChatRequest(UserOnly, p) : p \in ProviderNamesAsked }
       \/ /\ settings = Settings(PROVIDER_OLLAMA, None, None)
          /\ registry \in Registries
          /\ request \in { ChatRequest(c, None) : c \in Conversations }
    /\ odd = MaxOdd
    /\ InitRest
    /\ ScrapeIdle /\ RegistryIdle /\ CodecIdle /\ PromptIdle
    /\ SessionIdle /\ SearchIdle /\ ExecutorIdle

(***************************************************************************)
(* LLMService.chat, one action per stretch between two awaits.             *)
(***************************************************************************)
\* line 137 and lines 138-148 or 219-227: the loop test, then either the next
\* provider.chat is issued or the budget is exhausted
LoopHead(msgs, tcm) ==
    IF iterations < MAX_TOOL_ITERATIONS
    THEN /\ iterations' = iterations + 1
         /\ backend_calls' = backend_calls + 1
         /\ sent' = msgs
         /\ pc' = "await_backend"
         /\ outcome' = outcome
    ELSE /\ outcome' = MaxIterationsException(
                           "Maximum tool calling iterations reached",
                           [iterations |-> iterations, tool_calls |-> Len(tcm)])
         /\ pc' = "done"
         /\ UNCHANGED loopVars

\* a failure escapes to the outer handlers of chat
Escape(exc, msg) ==
    /\ outcome' = RaisedByChat(exc, msg)
    /\ pc' = "done"
    /\ UNCHANGED loopVars

\* the end of an iteration's body
EndBody(body) ==
    /\ messages' = body.messages
    /\ tool_calls_made' = body.tool_calls_made
    /\ IF body.exc # ""
       THEN Escape(body.exc, "validation error for ToolCallInfo")
       ELSE LoopHead(body.messages, body.tool_calls_made)

\* lines 112-148: resolve the provider, seed the conversation, enter the loop
Start ==
    /\ pc = "start"
    /\ LET p == get_provider(settings, request.provider) IN
       IF p.r = "raise"
       THEN /\ Escape(p.exc, p.msg)
            /\ UNCHANGED << provider, messages >>
       ELSE LET all_tools == get_all(registry)
                dumped == [i \in DOMAIN request.messages |->
                              model_dump(request.messages[i])]
                seeded == _add_system_prompt_if_needed(dumped, all_tools)
            IN /\ provider' = p.v
               /\ messages' = seeded
               /\ LoopHead(seeded, << >>)
    /\ UNCHANGED << settings, registry, request, tool_calls_made, usage, pending,
                    http, exec_calls, invocations, last_reply, last_exec, odd >>
    /\ UNCHANGED besideChat

\* mutant: a failed provider.chat is tried again while the budget lasts
OnBackendFailure_retry(reply) ==
    /\ LoopHead(messages, tool_calls_made)
    /\ UNCHANGED << messages, tool_calls_made, usage, pending, exec_calls,
                    invocations >>

\* lines 142-148 with 229-237: provider.chat raised; the failure leaves chat
OnBackendFailure(reply) ==
    /\ Escape(reply.exc, reply.msg)
    /\ UNCHANGED << messages, tool_calls_made, usage, pending, exec_calls,
                    invocations >>

\* lines 150-202: the reply of provider.chat arrives (or the call fails); parse
\* it; return the final answer, or start on the directive up to tool.execute
BackendReply(reply) ==
    /\ pc = "await_backend"
    /\ reply.ok => \/ reply.content \in EndingReplies \cup {PlainDirective}
                   \/ reply.content \in OddReplies /\ odd < MaxOdd
    /\ odd' = IF reply.ok /\ reply.content \in OddReplies THEN odd + 1 ELSE odd
    /\ last_reply' = reply
    /\ IF ~reply.ok
       THEN OnBackendFailure(reply)
       ELSE LET content == reply.content
                parsed == parse_tool_call_from_response(content)
            IN
            /\ usage' = UsageOf(iterations)
            /\ CASE parsed.r = "raise" ->
                      /\ Escape(parsed.exc, parsed.msg)
                      /\ UNCHANGED << messages, tool_calls_made, pending, exec_calls,
                                      invocations >>
                 [] parsed.r = "none" \/ (parsed.r = "found" /\ ~Truthy(parsed.v)) ->
                      \* lines 158-169: no tool call, the final response
                      /\ outcome' = ChatResponse(content, tool_calls_made, usage',
                                        StrOr(request.provider, settings.default_provider),
                                        StrOr(request.model, settings.default_model))
                      /\ pc' = "done"
                      /\ UNCHANGED loopVars
                      /\ UNCHANGED << messages, tool_calls_made, pending, exec_calls,
                                      invocations >>
                 [] OTHER ->
                      LET tool_call == parsed.v IN
                      IF tool_call.j # "obj"
                      THEN \* tool_call.get on a value that is no mapping
                           /\ Escape("AttributeError", "object has no attribute 'get'")
                           /\ UNCHANGED << messages, tool_calls_made, pending,
                                           exec_calls, invocations >>
                      ELSE
                      LET tool_name == DictGet(tool_call, "name", PyNone)
                          tool_args == DictGet(tool_call, "arguments", JObj(EmptyDict))
                      IN
                      IF tool_args.j # "obj"
                      THEN \* tool_args.keys() on a value that is no mapping
                           /\ Escape("AttributeError", "object has no attribute 'keys'")
                           /\ UNCHANGED << messages, tool_calls_made, pending,
                                           exec_calls, invocations >>
                      ELSE
                      LET msgs == Append(messages, Dict("assistant", content))
                          tool == RegistryGet(registry, tool_name)
                      IN
                      /\ invocations' = Append(invocations,
                                               [name |-> tool_name, arguments |-> tool_args])
                      /\ CASE tool.r = "raise" ->
                                /\ EndBody(HandleToolError(msgs, tool_calls_made, tool_name,
                                                           tool_args, tool.exc, tool.msg))
                                /\ UNCHANGED << pending, exec_calls >>
                           [] tool.r = "none" ->
                                /\ EndBody(SaveToolCall(msgs, tool_calls_made, tool_name,
                                                        tool_args, NotFoundResult(tool_name)))
                                /\ UNCHANGED << pending, exec_calls >>
                           [] OTHER ->
                                \* line 188: await tool.execute(**tool_args)
                                /\ messages' = msgs
                                /\ pending' = [active |-> TRUE, tool |-> tool.v,
                                               tool_name |-> tool_name,
                                               tool_args |-> tool_args]
                                /\ exec_calls' = exec_calls + 1
                                /\ pc' = "await_tool"
                                /\ UNCHANGED << tool_calls_made, outcome >>
                                /\ UNCHANGED loopVars
    /\ UNCHANGED << settings, registry, request, provider, http, last_exec >>
    /\ UNCHANGED besideChat

\* mutant: the execution is left running and the next backend invocation
\* is issued without its result
ToolReturn_detached ==
    /\ pc = "await_tool"
    /\ LoopHead(messages, tool_calls_made)
    /\ UNCHANGED << settings, registry, request, provider, messages, tool_calls_made,
                    usage, pending, http, exec_calls, invocations, last_reply,
                    last_exec, odd >>
    /\ UNCHANGED besideChat

\* lines 188-217: tool.execute returns or raises; record, serialize, loop
ToolReturn ==
    /\ pc = "await_tool"
    /\ \E out \in ExecuteOutcomes(pending.tool, pending.tool_args) :
         /\ last_exec' = out
         /\ IF out.r = "found"
            THEN EndBody(SaveToolCall(messages, tool_calls_made, pending.tool_name,
                                      pending.tool_args, out.v))
            ELSE EndBody(HandleToolError(messages, tool_calls_made, pending.tool_name,
                                         pending.tool_args, out.exc, out.msg))
    /\ pending' = NoPending
    /\ UNCHANGED << settings, registry, request, provider, usage, http, exec_calls,
                    invocations, last_reply, odd >>
    /\ UNCHANGED besideChat

(***************************************************************************)
(* The /api/chat endpoint (app/routers/chat.py).                           *)
(***************************************************************************)
\* lines 44-65: the response is returned as it is; an LLMMiddlewareException
\* becomes HTTPException(status_code=400, detail=e.message)
HttpOf(result) ==
    IF result.kind = "ChatResponse"
    THEN [status |-> 200, body |-> result]
    ELSE [status |-> 400, detail |-> result.message]

EndpointRespond ==
    /\ pc = "done"
    /\ http' = HttpOf(outcome)
    /\ pc' = "responded"
    /\ UNCHANGED << settings, registry, request, provider, messages, tool_calls_made,
                    usage, iterations, pending, outcome, backend_calls, exec_calls,
                    sent, invocations, last_reply, last_exec, odd >>
    /\ UNCHANGED besideChat

Replies ==
    {BackendFailure} \cup
    { BackendReplyOf(c) : c \in EndingReplies \cup OddReplies \cup {PlainDirective} }

Next ==
    \/ Start
    \/ \E reply \in Replies : BackendReply(reply)
    \/ ToolReturn
    \/ EndpointRespond

Spec == Init /\ [][Next]_vars
SpecConfig == InitConfig /\ [][Next]_vars

(***************************************************************************)
(* Properties of the orchestration loop.                                   *)
(***************************************************************************)
Finished == pc \in {"done", "responded"}
Last(seq) == seq[Len(seq)]
IsPrefix(a, b) == Len(a) <= Len(b) /\ SubSeq(b, 1, Len(a)) = a
BackendFailed == last_reply # Absent /\ ~last_reply.ok
\* replies received so far, and whether each of them parsed to an invocation
RepliesReceived == IF pc = "await_backend" THEN backend_calls - 1
                   ELSE IF BackendFailed THEN backend_calls - 1 ELSE backend_calls
\* (an invocation of the data model: a string name and a mapping of arguments)
EveryReplyAnInvocation ==
    /\ backend_calls >= 1
    /\ ~BackendFailed
    /\ Len(invocations) = RepliesReceived
    /\ \A i \in 1..Len(invocations) : invocations[i].name.j = "str"

\* C1: when every backend reply parsed to a capability invocation, the request
\* ends after exactly MAX_TOOL_ITERATIONS backend invocations with
\* MaxIterationsException whose details carry iterations = MAX_TOOL_ITERATIONS
\* and the number of tool calls made.
C1_BudgetExceeded ==
    (Finished /\ EveryReplyAnInvocation) =>
        /\ outcome.kind = "MaxIterationsException"
        /\ backend_calls = MAX_TOOL_ITERATIONS
        /\ outcome.details.iterations = MAX_TOOL_ITERATIONS
        /\ outcome.details.tool_calls = Len(invocations)

\* C2: when the first k replies parsed to invocations and reply k+1 to absent,
\* chat made k+1 backend invocations and returned a ChatResponse with
\* success = true, the last reply as the assistant message and k records.
C2_FinalAnswer ==
    (Finished /\ ~BackendFailed /\ backend_calls >= 1
       /\ Len(invocations) = backend_calls - 1
       /\ parse_tool_call_from_response(last_reply.content) = Absent) =>
        /\ outcome.kind = "ChatResponse"
        /\ outcome.success
        /\ outcome.message = ChatMessage("assistant", last_reply.content)
        /\ Len(outcome.tool_calls_made) = backend_calls - 1
        /\ backend_calls <= MAX_TOOL_ITERATIONS

\* C3: between iterations and at a regular end of the request, tool_calls_made
\* holds exactly one record per processed invocation, in order, record i
\* carrying the name and the arguments of invocation i.
C3_OneRecordPerInvocation ==
    (pc = "await_backend" \/ (Finished /\ outcome.kind # "ProviderException")) =>
        /\ Len(tool_calls_made) = Len(invocations)
        /\ \A i \in 1..Len(invocations) :
              /\ i <= Len(tool_calls_made)
              /\ tool_calls_made[i].tool = NameRepr(invocations[i].name)
              /\ tool_calls_made[i].arguments = invocations[i].arguments

\* C4: when execute of a registered capability fails, the request goes on: the
\* record appended carries {error: message, type: failure kind}, the formatted
\* result is appended as a user message, and the next backend invocation is
\* issued or the budget check ends the request.
C4_FailureFoldedAction ==
    (pc = "await_tool" /\ pc' # "await_tool" /\ last_exec'.r = "raise") =>
        LET error_result == JObj([error |-> JStr(last_exec'.msg),
                                  type |-> JStr(last_exec'.exc)])
        IN /\ tool_calls_made' =
                  Append(tool_calls_made,
                         [tool |-> pending.tool, arguments |-> pending.tool_args,
                          result |-> error_result])
           /\ messages' =
                  Append(messages,
                         Dict("user", [s |-> "tool_result", tool |-> pending.tool,
                                       json |-> error_result]))
           /\ \/ pc' = "await_backend" /\ backend_calls' = backend_calls + 1
                 /\ outcome' = NoOutcome /\ sent' = messages'
              \/ pc' = "done" /\ outcome'.kind = "MaxIterationsException"
                 /\ iterations = MAX_TOOL_ITERATIONS
C4_FailureFolded == [][C4_FailureFoldedAction]_vars

\* C4 witness: an execute has failed (NameError from the calculator) and the
\* loop is waiting for the next backend reply with the error recorded.
C4_Witness ==
    /\ pc = "await_backend"
    /\ last_exec.r = "raise"
    /\ last_exec.exc = "NameError"
    /\ Len(tool_calls_made) >= 1
    /\ Last(tool_calls_made).result.kv["type"] = JStr("NameError")
    /\ Last(messages).role = "user"

\* C5: when the name of a parsed invocation is not a key of the registry (an
\* unknown name, or no name at all), chat does not raise: one error-shaped
\* record and one result message are appended and the request continues.
NotRegistered(name) ==
    ~(name.j = "str" /\ \E i \in DOMAIN registry : registry[i] = name.s)
C5_NotFoundFoldedAction ==
    (pc = "await_backend" /\ Len(invocations') = Len(invocations) + 1
       /\ NotRegistered(Last(invocations').name)) =>
        /\ outcome'.kind # "ProviderException"
        /\ Len(tool_calls_made') = Len(tool_calls_made) + 1
        /\ "error" \in DOMAIN Last(tool_calls_made').result.kv
        /\ Len(messages') = Len(messages) + 2
        /\ Last(messages').role = "user"
        /\ pc' = "await_backend" \/ outcome'.kind = "MaxIterationsException"
C5_NotFoundFolded == [][C5_NotFoundFoldedAction]_vars

\* C6: an unrecognized or uncredentialed provider ends the request with
\* ProviderException before any backend invocation or capability execution;
\* otherwise the asked provider, or the default when none is asked, is resolved.
Asked == StrOr(request.provider, settings.default_provider)
Unrecognized ==
    Lower(Asked) \notin {PROVIDER_DEEPINFRA, PROVIDER_OPENAI, PROVIDER_OLLAMA}
Uncredentialed ==
    \/ Lower(Asked) = PROVIDER_DEEPINFRA /\ settings.deepinfra_api_key \in {None, ""}
    \/ Lower(Asked) = PROVIDER_OPENAI /\ settings.openai_api_key \in {None, ""}
C6_ProviderResolution ==
    pc # "start" =>
        /\ (Unrecognized \/ Uncredentialed) =>
              /\ Finished
              /\ outcome.kind = "ProviderException"
              /\ backend_calls = 0
              /\ exec_calls = 0
              /\ provider = None
        /\ ~(Unrecognized \/ Uncredentialed) =>
              /\ provider = Lower(Asked)
              /\ backend_calls >= 1
        /\ (request.provider = None /\ ~Uncredentialed) =>
              provider = settings.default_provider

\* C6 witness: a request for openai without a key has ended with
\* ProviderException and no backend invocation.
C6_Witness ==
    /\ Finished
    /\ request.provider = "openai"
    /\ settings.openai_api_key = None
    /\ outcome.kind = "ProviderException"
    /\ backend_calls = 0

\* C7: a failed backend invocation ends the request with ProviderException;
\* the failing step and every later step issue no backend invocation and no
\* capability execution.
C7_BackendFailureAction ==
    /\ BackendFailed' =>
          /\ Finished'
          /\ outcome'.kind = "ProviderException"
          /\ ~pending'.active
          /\ backend_calls' = backend_calls
          /\ exec_calls' = exec_calls
          /\ backend_calls' = iterations'
    /\ BackendFailed => BackendFailed'
C7_BackendFailureAborts == [][C7_BackendFailureAction]_vars

\* C7 witness: the third backend invocation failed after two tool calls and
\* the endpoint has answered.
C7_Witness ==
    /\ BackendFailed
    /\ pc = "responded"
    /\ backend_calls = 3
    /\ Len(tool_calls_made) = 2
    /\ outcome.kind = "ProviderException"

\* C8: the three kinds of fatal outcome (configuration, upstream failure,
\* exhausted loop) are reported with pairwise different machine-readable
\* kinds, by chat (the exception class) and by the endpoint (the status).
ConfigFailure == Finished /\ backend_calls = 0
UpstreamRaised == RaisedByChat(BackendFailure.exc, BackendFailure.msg)
BudgetRaised == MaxIterationsException("", EmptyDict)
C8_DistinctKinds ==
    /\ ConfigFailure => outcome.kind \notin {UpstreamRaised.kind, BudgetRaised.kind}
    /\ (Finished /\ BackendFailed) => outcome.kind # BudgetRaised.kind
    /\ (pc = "responded" /\ ConfigFailure) =>
          http.status \notin {HttpOf(UpstreamRaised).status, HttpOf(BudgetRaised).status}
    /\ (pc = "responded" /\ BackendFailed) =>
          http.status # HttpOf(BudgetRaised).status

\* C9: the conversation only grows at its end: each step leaves the old
\* conversation a prefix of the new one, the list passed to a backend
\* invocation extends the list passed to the one before, and the caller's
\* messages stay in it in their order and with their content.
Dumped == [i \in DOMAIN request.messages |-> model_dump(request.messages[i])]
CallerMessagesKept ==
    \E off \in {0, 1} :
        /\ off + Len(Dumped) <= Len(messages)
        /\ SubSeq(messages, off + 1, off + Len(Dumped)) = Dumped
C9_AppendOnlyAction ==
    /\ IsPrefix(messages, messages')
    /\ IsPrefix(sent, sent')
    /\ backend_calls' >= 1 => CallerMessagesKept'
    /\ backend_calls' = backend_calls + 1 => sent' = messages'
C9_AppendOnly == [][C9_AppendOnlyAction]_vars

\* C9 witness: the third backend invocation was passed the seeded conversation
\* and the four messages of two tool calls.
C9_Witness ==
    /\ pc = "await_backend"
    /\ backend_calls = 3
    /\ Len(sent) = Len(request.messages) + 1 + 4
    /\ sent[Len(sent)].role = "user"

\* C10: the conversation passed to the first backend invocation is the
\* caller's with one system message (the built prompt) put in front when the
\* caller's has no system message anywhere and a capability is registered,
\* and the caller's unchanged in every other case.
C10_Seeding ==
    (pc = "await_backend" /\ backend_calls = 1) =>
        LET no_system == \A i \in DOMAIN request.messages :
                            request.messages[i].role # "system"
            system_message ==
                Dict("system", SystemText(build_system_prompt_with_tools(registry)))
        IN /\ messages = sent
           /\ IF no_system /\ Len(registry) >= 1
              THEN sent = << system_message >> \o Dumped
              ELSE sent = Dumped

\* C10 witness: a system message was put in front of a caller's conversation.
C10_Witness ==
    /\ pc = "await_backend"
    /\ backend_calls = 1
    /\ Len(request.messages) >= 1
    /\ Len(sent) = Len(request.messages) + 1
    /\ sent[1].role = "system"
    /\ sent[1].content.s = "system_prompt"

(***************************************************************************)
(* WebScraperService.scrape_multiple_urls: one task per target, admitted   *)
(* by asyncio.Semaphore(max_concurrent), joined by asyncio.gather.         *)
(***************************************************************************)
\* longest target list passed together with an explicit max_concurrent
MaxTargets == 3
\* largest max_concurrent passed explicitly
MaxCap == 2
\* the default of the parameter max_concurrent
DEFAULT_MAX_CONCURRENT == 5

\* the first n targets of A, B, C, A, B, C, ...
TargetAt(i) == CASE i % 3 = 1 -> "A" [] i % 3 = 2 -> "B" [] OTHER -> "C"
TargetList(n) == [i \in 1..n |-> TargetAt(i)]

\* how session.get / raise_for_status / the parsing of one page may end
FetchOutcomes == {"ok", "HTTPStatusError"}

\* lines 103-106: the main content extracted from the page at url (whose
\* page it is and how many characters it has); lines 143: the empty content
PageText(url) == [of |-> url, chars |-> 3000]
NoText == [of |-> None, chars |-> 0]
\* scrape_url, lines 77-86 and 135: the page's record, error None
SuccessResult(url) ==
    [url |-> url, status_code |-> 200, content |-> PageText(url), error |-> None]
\* scrape_url, lines 137-147 (and lines 232-240): the error-shaped record
ErrorResult(url, error) == [url |-> url, content |-> NoText, error |-> error]
\* scrape_url catches every Exception of the fetch and returns a record
scrape_url(url, fetch) ==
    IF fetch = "ok" THEN SuccessResult(url) ELSE ErrorResult(url, fetch)

\* isinstance(result, Exception) on what gather collected
IsException(result) == "exc" \in DOMAIN result

\* the calls: explicit max_concurrent with lists up to MaxTargets, and the
\* call of WebIntelligenceService (max_concurrent left to its default) with
\* a list one longer than the default
ScrapeCalls ==
    { [urls |-> TargetList(n), max_concurrent |-> c] :
          n \in 0..MaxTargets, c \in 1..MaxCap }
    \cup { [urls |-> TargetList(DEFAULT_MAX_CONCURRENT + 1),
            max_concurrent |-> DEFAULT_MAX_CONCURRENT] }

\* lines 219-226: the semaphore is created, the tasks are handed to gather
InitScrape ==
    /\ \E call \in ScrapeCalls :
         /\ urls = call.urls
         /\ max_concurrent = call.max_concurrent
         /\ semaphore = call.max_concurrent
         /\ tasks = [i \in DOMAIN call.urls |-> "created"]
         /\ results = [i \in DOMAIN call.urls |-> Absent]
         /\ fetched = [i \in DOMAIN call.urls |-> "none"]
    /\ scrape_pc = "gather"
    /\ processed_results = << >>
    /\ completed = << >>
    /\ settings = Settings(PROVIDER_OLLAMA, None, None)
    /\ registry = << "calculator" >>
    /\ request = ChatRequest(UserOnly, None)
    /\ odd = 0
    /\ InitRest
    /\ RegistryIdle /\ CodecIdle /\ PromptIdle
    /\ SessionIdle /\ SearchIdle /\ ExecutorIdle

besideScrape == << chatVars, registryVars, codecVars, promptVars,
                  sessionVars, searchVars, executorVars >>

\* mutant: the task enters without waiting for the semaphore
Acquire_unguarded(i) ==
    /\ scrape_pc = "gather"
    /\ tasks[i] = "created"
    /\ semaphore' = IF semaphore > 0 THEN semaphore - 1 ELSE 0
    /\ tasks' = [tasks EXCEPT ![i] = "running"]
    /\ UNCHANGED << scrape_pc, urls, max_concurrent, results, processed_results,
                    fetched, completed >>

\* line 222, `async with semaphore`: the task enters when the value is
\* positive and takes one unit; which waiting task enters is the event
\* loop's choice
Acquire(i) ==
    /\ scrape_pc = "gather"
    /\ tasks[i] = "created"
    /\ semaphore > 0
    /\ semaphore' = semaphore - 1
    /\ tasks' = [tasks EXCEPT ![i] = "running"]
    /\ UNCHANGED << scrape_pc, urls, max_concurrent, results, processed_results,
                    fetched, completed >>

\* mutant: the results are collected in the order the tasks finish
Collect_as_completed(i, result) == [results EXCEPT ![Len(completed) + 1] = result]

\* asyncio.gather: the result of the i-th awaitable goes to the i-th place
Collect(i, result) == [results EXCEPT ![i] = result]

\* mutant: the unit is given back only when the fetch succeeded
Release_unless_failed(i, fetch) ==
    /\ scrape_pc = "gather"
    /\ tasks[i] = "running"
    /\ results' = [results EXCEPT ![i] = scrape_url(urls[i], fetch)]
    /\ semaphore' = IF fetch = "ok" THEN semaphore + 1 ELSE semaphore
    /\ tasks' = [tasks EXCEPT ![i] = "done"]
    /\ fetched' = [fetched EXCEPT ![i] = fetch]
    /\ completed' = Append(completed, i)
    /\ UNCHANGED << scrape_pc, urls, max_concurrent, processed_results >>

\* line 223 and the end of the `async with`: scrape_url(url) has returned
\* (its fetch ended with `fetch`), the unit is given back, the task is done
Release(i, fetch) ==
    /\ scrape_pc = "gather"
    /\ tasks[i] = "running"
    /\ results' = Collect(i, scrape_url(urls[i], fetch))
    /\ semaphore' = semaphore + 1
    /\ tasks' = [tasks EXCEPT ![i] = "done"]
    /\ fetched' = [fetched EXCEPT ![i] = fetch]
    /\ completed' = Append(completed, i)
    /\ UNCHANGED << scrape_pc, urls, max_concurrent, processed_results >>

\* mutant: the call returns as soon as one task is done
Return_first_completed ==
    /\ scrape_pc = "gather"
    /\ \E i \in DOMAIN tasks : tasks[i] = "done"
    /\ processed_results' = results
    /\ scrape_pc' = "returned"
    /\ UNCHANGED << urls, max_concurrent, semaphore, tasks, results, fetched,
                    completed >>

\* lines 226-244: gather returns when every task is done; exceptions among
\* the results become error-shaped records; the list is returned
Return ==
    /\ scrape_pc = "gather"
    /\ \A i \in DOMAIN tasks : tasks[i] = "done"
    /\ processed_results' =
           [i \in DOMAIN results |->
               IF IsException(results[i])
               THEN ErrorResult(urls[i], results[i].msg)
               ELSE results[i]]
    /\ scrape_pc' = "returned"
    /\ UNCHANGED << urls, max_concurrent, semaphore, tasks, results, fetched,
                    completed >>

NextScrape ==
    \/ \E i \in DOMAIN urls : Acquire(i) /\ UNCHANGED besideScrape
    \/ \E i \in DOMAIN urls : \E fetch \in FetchOutcomes :
           Release(i, fetch) /\ UNCHANGED besideScrape
    \/ Return /\ UNCHANGED besideScrape

SpecScrape == InitScrape /\ [][NextScrape]_vars

\* the event loop runs a task that can run: a step of the call that stays
\* possible is eventually taken (each scrape_url is taken to terminate)
SpecScrapeFair == InitScrape /\ [][NextScrape]_vars /\ WF_vars(NextScrape)

\* the per-target operations started and not yet finished
InFlight == { i \in DOMAIN tasks : tasks[i] = "running" }
InIndexOrder(seq) == \A i \in 1..Len(seq) : \A j \in 1..Len(seq) : i < j => seq[i] < seq[j]

\* C11: the list returned has one result per target, the i-th result being
\* that of the i-th target whatever the order of completion: the page's
\* record where the fetch succeeded, an error-shaped record where it failed.
C11_OrderedResults ==
    scrape_pc = "returned" =>
        /\ Len(processed_results) = Len(urls)
        /\ \A i \in DOMAIN urls :
              /\ processed_results[i].url = urls[i]
              /\ fetched[i] = "ok" => processed_results[i] = SuccessResult(urls[i])
              /\ fetched[i] # "ok" =>
                    /\ processed_results[i] = ErrorResult(urls[i], fetched[i])
                    /\ "status_code" \notin DOMAIN processed_results[i]

\* C11 witness: targets A, B, C, B failed, A and C succeeded, and the tasks
\* finished in an order other than the input order.
C11_Witness ==
    /\ scrape_pc = "returned"
    /\ urls = << "A", "B", "C" >>
    /\ fetched = << "ok", "HTTPStatusError", "ok" >>
    /\ completed = << 3, 2, 1 >>
    /\ processed_results[2].error = "HTTPStatusError"

\* C12: at most max_concurrent per-target operations are started and not
\* yet finished, in every state.
C12_BoundedInFlight ==
    scrape_pc # "idle" =>
        /\ Cardinality(InFlight) <= max_concurrent
        /\ Cardinality(InFlight) + semaphore = max_concurrent

\* C12 witness: with the default cap and a longer list, the cap is reached
\* while a target still waits.
C12_Witness ==
    /\ scrape_pc = "gather"
    /\ max_concurrent = DEFAULT_MAX_CONCURRENT
    /\ Len(urls) > max_concurrent
    /\ Cardinality(InFlight) = max_concurrent
    /\ \E i \in DOMAIN tasks : tasks[i] = "created"

(***************************************************************************)
(* The characters of a text.  A text is written as a sequence of tokens:   *)
(* the characters that matter to json.loads and to the two regular         *)
(* expressions each stand alone ({ } [ ] : , the double quote, a space     *)
(* for any white space, the fence of three backquotes) and every other     *)
(* run of characters is one word.  Strings hold no quote or backslash.     *)
(***************************************************************************)
\* most fenced blocks in one text
MaxBlocks == 2

QUOTE == "\""
WS == " "
\* the fence of three backquotes (written with three apostrophes)
FENCE == "'''"

\* the characters of a token sequence, as one string
RECURSIVE Join(_)
Join(toks) == IF toks = << >> THEN "" ELSE Head(toks) \o Join(Tail(toks))

\* the tokens of the strings used in values
Chars(str) ==
    CASE str = ""                  -> << >>
      [] str = "a} '''b"           -> << "a", "}", WS, FENCE, "b" >>
      [] str = "use tool_call now" -> << "use", WS, "tool_call", WS, "now" >>
      [] OTHER                     -> << str >>

Digits == 0..9
IsNumeral(word) == \E n \in Digits : ToString(n) = word
NumeralValue(word) == CHOOSE n \in Digits : ToString(n) = word

\* the order in which a dict of these values lists its keys
KeyOrder == << "tool_call", "name", "arguments", "expression", "query", "answer" >>

\* json.dumps(value) with the default separators
RECURSIVE json_dumps(_), DumpMembers(_, _), DumpItems(_, _)
json_dumps(v) ==
    CASE v.j = "null" -> << "null" >>
      [] v.j = "bool" -> << IF v.b THEN "true" ELSE "false" >>
      [] v.j = "num"  -> << ToString(v.n) >>
      [] v.j = "str"  -> << QUOTE >> \o Chars(v.s) \o << QUOTE >>
      [] v.j = "list" -> << "[" >> \o DumpItems(v.items, 1) \o << "]" >>
      [] v.j = "obj"  ->
             << "{" >>
             \o DumpMembers(v.kv, SelectSeq(KeyOrder, LAMBDA k : k \in DOMAIN v.kv))
             \o << "}" >>
DumpMembers(kv, keys) ==
    IF keys = << >> THEN << >>
    ELSE << QUOTE >> \o Chars(Head(keys)) \o << QUOTE, ":", WS >>
         \o json_dumps(kv[Head(keys)])
         \o (IF Len(keys) > 1 THEN << ",", WS >> ELSE << >>)
         \o DumpMembers(kv, Tail(keys))
DumpItems(items, i) ==
    IF i > Len(items) THEN << >>
    ELSE json_dumps(items[i])
         \o (IF i < Len(items) THEN << ",", WS >> ELSE << >>)
         \o DumpItems(items, i + 1)

\* json.loads: a recursive-descent reading of the tokens
RECURSIVE SkipWs(_, _)
SkipWs(toks, i) ==
    IF i <= Len(toks) /\ toks[i] = WS THEN SkipWs(toks, i + 1) ELSE i

\* the first index from i on at which the token is one of `which`, or 0
RECURSIVE FirstOf(_, _, _)
FirstOf(toks, i, which) ==
    IF i > Len(toks) THEN 0
    ELSE IF toks[i] \in which THEN i ELSE FirstOf(toks, i + 1, which)

Fail == [ok |-> FALSE]
Ok(v, next) == [ok |-> TRUE, v |-> v, next |-> next]

\* a string starting with the quote at i: up to the next quote
ScanString(toks, i) ==
    LET close == FirstOf(toks, i + 1, {QUOTE}) IN
    IF close = 0 THEN Fail
    ELSE Ok(Join(SubSeq(toks, i + 1, close - 1)), close + 1)

RECURSIVE ParseValue(_, _), ParseMembers(_, _, _), ParseElements(_, _, _)
ParseValue(toks, from) ==
    LET i == SkipWs(toks, from) IN
    IF i > Len(toks) THEN Fail
    ELSE CASE toks[i] = "{" ->
                  LET j == SkipWs(toks, i + 1) IN
                  IF j <= Len(toks) /\ toks[j] = "}"
                  THEN Ok(JObj(EmptyDict), j + 1)
                  ELSE ParseMembers(toks, j, EmptyDict)
           [] toks[i] = "[" ->
                  LET j == SkipWs(toks, i + 1) IN
                  IF j <= Len(toks) /\ toks[j] = "]"
                  THEN Ok(JList(<< >>), j + 1)
                  ELSE ParseElements(toks, j, << >>)
           [] toks[i] = QUOTE ->
                  LET str == ScanString(toks, i) IN
                  IF str.ok THEN Ok(JStr(str.v), str.next) ELSE Fail
           [] toks[i] = "null"  -> Ok(JNull, i + 1)
           [] toks[i] = "true"  -> Ok(JBool(TRUE), i + 1)
           [] toks[i] = "false" -> Ok(JBool(FALSE), i + 1)
           [] OTHER ->
                  IF IsNumeral(toks[i])
                  THEN Ok(JNum(NumeralValue(toks[i])), i + 1) ELSE Fail
ParseMembers(toks, i, kv) ==
    IF i > Len(toks) \/ toks[i] # QUOTE THEN Fail
    ELSE LET key == ScanString(toks, i) IN
         IF ~key.ok THEN Fail
         ELSE LET c == SkipWs(toks, key.next) IN
              IF c > Len(toks) \/ toks[c] # ":" THEN Fail
              ELSE LET val == ParseValue(toks, c + 1) IN
                   IF ~val.ok THEN Fail
                   ELSE LET kv2 == (key.v :> val.v) @@ kv
                            d == SkipWs(toks, val.next)
                        IN IF d > Len(toks) THEN Fail
                           ELSE IF toks[d] = "}" THEN Ok(JObj(kv2), d + 1)
                           ELSE IF toks[d] = ","
                                THEN ParseMembers(toks, SkipWs(toks, d + 1), kv2)
                                ELSE Fail
ParseElements(toks, i, items) ==
    LET val == ParseValue(toks, i) IN
    IF ~val.ok THEN Fail
    ELSE LET items2 == Append(items, val.v)
             d == SkipWs(toks, val.next)
         IN IF d > Len(toks) THEN Fail
            ELSE IF toks[d] = "]" THEN Ok(JList(items2), d + 1)
            ELSE IF toks[d] = ","
                 THEN ParseElements(toks, SkipWs(toks, d + 1), items2)
                 ELSE Fail

\* json.loads(s): one value, white space around it, nothing else
json_loads(toks) ==
    LET val == ParseValue(toks, 1) IN
    IF val.ok /\ SkipWs(toks, val.next) > Len(toks) THEN Json(val.v) ELSE NotJson

\* lines 114-118, re.findall(r'```json\s*(\{.*?})\s*```', text, re.DOTALL):
\* the match that starts at s, if there is one
BlockMatch(toks, s) ==
    IF s + 1 > Len(toks) \/ toks[s] # FENCE THEN Fail
    ELSE IF toks[s + 1] # "json" THEN Fail
    ELSE LET open == SkipWs(toks, s + 2) IN
         IF open > Len(toks) \/ toks[open] # "{" THEN Fail
         ELSE LET ends == { e \in (open + 1)..Len(toks) :
                              /\ toks[e] = "}"
                              /\ LET f == SkipWs(toks, e + 1) IN
                                 f <= Len(toks) /\ toks[f] = FENCE }
              IN IF ends = {} THEN Fail
                 ELSE LET e == CHOOSE x \in ends : \A y \in ends : x <= y IN
                      Ok(SubSeq(toks, open, e), SkipWs(toks, e + 1) + 1)

\* lines 129-133, re.findall(r'\{[^{}]*"tool_call"[^{}]*\{[^}]*}[^}]*}', ...):
\* the match that starts at s, if there is one
InlineMatch(toks, s) ==
    IF toks[s] # "{" THEN Fail
    ELSE LET inner == FirstOf(toks, s + 1, {"{", "}"}) IN
         IF inner = 0 THEN Fail
         ELSE IF toks[inner] # "{" THEN Fail
         ELSE IF ~ \E t \in (s + 1)..(inner - 3) :
                       /\ toks[t] = QUOTE
                       /\ toks[t + 1] = "tool_call"
                       /\ toks[t + 2] = QUOTE
              THEN Fail
         ELSE LET close1 == FirstOf(toks, inner + 1, {"}"}) IN
              IF close1 = 0 THEN Fail
              ELSE LET close2 == FirstOf(toks, close1 + 1, {"}"}) IN
                   IF close2 = 0 THEN Fail
                   ELSE Ok(SubSeq(toks, s, close2), close2 + 1)

\* re.findall: the matches from left to right, none overlapping another
RECURSIVE FindBlocks(_, _), FindInline(_, _)
FindBlocks(toks, s) ==
    IF s > Len(toks) THEN << >>
    ELSE LET found == BlockMatch(toks, s) IN
         IF found.ok THEN << found.v >> \o FindBlocks(toks, found.next)
         ELSE FindBlocks(toks, s + 1)
FindInline(toks, s) ==
    IF s > Len(toks) THEN << >>
    ELSE LET found == InlineMatch(toks, s) IN
         IF found.ok THEN << found.v >> \o FindInline(toks, found.next)
         ELSE FindInline(toks, s + 1)

\* str.strip
RECURSIVE Strip(_)
Strip(toks) ==
    IF toks = << >> THEN toks
    ELSE IF Head(toks) = WS THEN Strip(Tail(toks))
    ELSE IF toks[Len(toks)] = WS THEN Strip(SubSeq(toks, 1, Len(toks) - 1))
    ELSE toks

\* what json.loads and the two regular expressions find in the characters
TextOf(toks) ==
    LET json_blocks == FindBlocks(toks, 1)
        json_objects == FindInline(toks, 1)
    IN Text(Join(toks),
            json_loads(Strip(toks)),
            [i \in DOMAIN json_blocks |-> json_loads(json_blocks[i])],
            [i \in DOMAIN json_objects |-> json_loads(json_objects[i])])

(***************************************************************************)
(* The codec applied to written texts.                                     *)
(***************************************************************************)
\* invocations: the calculator case, one whose argument holds a closing
\* brace followed by a fence, one with no arguments, one with a name only
InvCalc == Invocation("calculator", [expression |-> JStr("2+2")])
InvFence == Invocation("web_search", [query |-> JStr("a} '''b")])
InvNoArgs == Invocation("calculator", EmptyDict)
InvNameOnly == JObj([name |-> JStr("calculator")])

\* an invocation of the data model: a name and a mapping of arguments
WellFormedInvocation(x) ==
    /\ x.j = "obj"
    /\ DOMAIN x.kv = {"name", "arguments"}
    /\ x.kv["name"].j = "str"
    /\ x.kv["arguments"].j = "obj"

\* JSON documents a backend may send
Documents ==
    { Directive(InvCalc), Directive(InvFence), Directive(InvNoArgs),
      Directive(InvNameOnly),
      JObj([answer |-> JNum(4)]), JObj(EmptyDict),
      JNum(5), JBool(TRUE), JNull, JStr("abc"), JStr("use tool_call now"),
      JList(<< JNum(5) >>),
      JList(<< JNum(5), Directive(InvNameOnly) >>),
      JList(<< JStr("tool_call"), Directive(InvNameOnly) >>) }

\* bodies of fenced blocks: malformed without and with a closing brace,
\* well-formed without and with tool_call
BadOpen == << "{", "bad" >>
BadClosed == << "{", "bad", "}" >>
Fragments ==
    { BadOpen, BadClosed, json_dumps(JObj([answer |-> JNum(4)])),
      json_dumps(Directive(InvCalc)), json_dumps(Directive(InvNameOnly)) }

PlainTexts == { << >>, << WS >>, << "no", WS, "json", WS, "here" >> }

\* a json-tagged fenced block around a body
Fence(frag) == << FENCE, "json", WS >> \o frag \o << WS, FENCE >>
RECURSIVE FenceAll(_, _)
FenceAll(frags, i) ==
    IF i > Len(frags) THEN << >>
    ELSE Fence(frags[i])
         \o (IF i < Len(frags) THEN << WS >> ELSE << >>)
         \o FenceAll(frags, i + 1)
Prose(toks) == << "Here:", WS >> \o toks \o << WS, "ok" >>

\* how a text is written: a bare document, a document in a fenced block, a
\* document inside prose, a run of fenced blocks, prose with a document
\* followed by a fenced block, plain words
Writings ==
    { [form |-> f, doc |-> d] : f \in {"bare", "fenced", "prose"}, d \in Documents }
    \cup { [form |-> "blocks", fragments |-> fs] :
               fs \in UNION { [1..k -> Fragments] : k \in 1..MaxBlocks } }
    \cup { [form |-> "mixed", doc |-> Directive(InvNameOnly), fragment |-> f] :
               f \in Fragments }
    \cup { [form |-> "plain", toks |-> t] : t \in PlainTexts }

Render(w) ==
    CASE w.form = "bare"   -> json_dumps(w.doc)
      [] w.form = "fenced" -> Fence(json_dumps(w.doc))
      [] w.form = "prose"  -> Prose(json_dumps(w.doc))
      [] w.form = "blocks" -> FenceAll(w.fragments, 1)
      [] w.form = "mixed"  -> Prose(json_dumps(w.doc)) \o << WS >> \o Fence(w.fragment)
      [] OTHER             -> w.toks

ChatIdle ==
    /\ settings = Settings(PROVIDER_OLLAMA, None, None)
    /\ registry = << "calculator" >>
    /\ request = ChatRequest(UserOnly, None)
    /\ odd = 0
    /\ InitRest

InitCodec ==
    /\ written \in Writings
    /\ response_text = Render(written)
    /\ codec_pc = "input"
    /\ parse_result = Absent
    /\ ChatIdle /\ ScrapeIdle /\ RegistryIdle /\ PromptIdle
    /\ SessionIdle /\ SearchIdle /\ ExecutorIdle

\* parse_tool_call_from_response(response_text)
Parse ==
    /\ codec_pc = "input"
    /\ parse_result' = parse_tool_call_from_response(TextOf(response_text))
    /\ codec_pc' = "parsed"
    /\ UNCHANGED << written, response_text >>
    /\ UNCHANGED << chatVars, scrapeVars, registryVars, promptVars,
                    sessionVars, searchVars, executorVars >>

NextCodec == Parse

SpecCodec == InitCodec /\ [][NextCodec]_vars

\* a candidate succeeds when it is a JSON object with the key tool_call
Succeeds(frag) ==
    /\ frag.ok
    /\ frag.doc.j = "obj"
    /\ "tool_call" \in DOMAIN frag.doc.kv
\* the value of the first candidate that succeeds, or absent
FirstSuccess(frags) ==
    IF \E i \in DOMAIN frags : Succeeds(frags[i])
    THEN LET i == CHOOSE x \in DOMAIN frags :
                      /\ Succeeds(frags[x])
                      /\ \A y \in DOMAIN frags : Succeeds(frags[y]) => x <= y
         IN Found(frags[i].doc.kv["tool_call"])
    ELSE Absent

\* C13: for a well-formed invocation X, parsing the bare JSON of
\* {"tool_call": X} returns X, and so does parsing that JSON inside a
\* json-tagged fenced block.
C13_RoundTrip ==
    ( /\ codec_pc = "parsed"
      /\ written.form \in {"bare", "fenced"}
      /\ written.doc.j = "obj"
      /\ DOMAIN written.doc.kv = {"tool_call"}
      /\ WellFormedInvocation(written.doc.kv["tool_call"]) )
    => parse_result = Found(written.doc.kv["tool_call"])

\* C14: when a candidate succeeds, the value returned is that of the first
\* candidate that succeeds in the order whole text, fenced blocks in order
\* of appearance, inline candidates in order of appearance.
C14_FirstMatchWins ==
    codec_pc = "parsed" =>
        LET text == TextOf(response_text)
            candidates == << text.whole >> \o text.blocks \o text.inline
        IN /\ (\E i \in DOMAIN candidates : Succeeds(candidates[i]))
                  => parse_result = FirstSuccess(candidates)
           /\ parse_result.r = "found" => parse_result = FirstSuccess(candidates)

\* C15: a text that is a valid JSON document without a tool_call key (an
\* object lacking it, an array, a number, a boolean, null, a string) parses
\* to absent, with no error.
C15_JsonWithoutKeyAbsent ==
    ( /\ codec_pc = "parsed"
      /\ json_loads(Strip(response_text)).ok
      /\ ~Succeeds(json_loads(Strip(response_text))) )
    => parse_result = Absent

\* C16: in a run of fenced blocks the malformed ones are skipped: the value
\* returned is that of the first block that is well-formed and has
\* tool_call.
C16_MalformedSkipped ==
    ( /\ codec_pc = "parsed"
      /\ written.form = "blocks"
      /\ \E i \in DOMAIN written.fragments : Succeeds(json_loads(written.fragments[i])) )
    => parse_result =
           FirstSuccess([i \in DOMAIN written.fragments |-> json_loads(written.fragments[i])])

(***************************************************************************)
(* ToolRegistry: a dict from name to capability.  A dict is written as the *)
(* sequence of its items in the order Python keeps them: a new key goes to *)
(* the end, assigning to a key already there replaces the value in place.  *)
(***************************************************************************)
\* most register calls in one behaviour
MaxRegistrations == 3
\* most names in one get_by_names call
MaxNames == 2

\* a capability object: its name, and which object of that name it is
Capability(name, object) == [name |-> name, object |-> object]
Capabilities ==
    { Capability(n, o) : n \in {"calculator", "web_search"}, o \in {"first", "second"} }
NamesKnown == {"calculator", "web_search", "nope"}
NameLists == UNION { [1..k -> NamesKnown] : k \in 0..MaxNames }

HasKey(d, key) == \E i \in DOMAIN d : d[i].key = key
\* d[key] = value
DictSetItem(d, key, value) ==
    IF HasKey(d, key)
    THEN [i \in DOMAIN d |->
             IF d[i].key = key THEN [key |-> key, value |-> value] ELSE d[i]]
    ELSE Append(d, [key |-> key, value |-> value])
\* d.get(key)
DictGetItem(d, key) ==
    IF HasKey(d, key)
    THEN (d[CHOOSE i \in DOMAIN d : d[i].key = key]).value
    ELSE PyNone
\* list(d.values())
DictValues(d) == [i \in DOMAIN d |-> d[i].value]

\* mutant: a registration is always added as a new entry
register_append(d, tool) == Append(d, [key |-> tool.name, value |-> tool])

\* line 13
register(d, tool) == DictSetItem(d, tool.name, tool)
\* line 17
get(d, name) == DictGetItem(d, name)
\* line 21, on the dict
get_all_tools(d) == DictValues(d)

\* mutant: an unknown name leaves None in the list
get_by_names_unfiltered(d, names) == [i \in DOMAIN names |-> get(d, names[i])]

\* line 25
get_by_names(d, names) ==
    SelectSeq([i \in DOMAIN names |-> get(d, names[i])], LAMBDA t : t # PyNone)

InitRegistry ==
    /\ RegistryIdle
    /\ ChatIdle /\ ScrapeIdle /\ CodecIdle /\ PromptIdle
    /\ SessionIdle /\ SearchIdle /\ ExecutorIdle

besideRegistry == << chatVars, scrapeVars, codecVars, promptVars,
                    sessionVars, searchVars, executorVars >>

Register(tool) ==
    /\ Len(registered) < MaxRegistrations
    /\ _tools' = register(_tools, tool)
    /\ registered' = Append(registered, tool)
    /\ reg_call' = [op |-> "register", arg |-> tool]
    /\ reg_return' = PyNone
    /\ UNCHANGED besideRegistry

Get(name) ==
    /\ reg_call' = [op |-> "get", arg |-> name]
    /\ reg_return' = get(_tools, name)
    /\ UNCHANGED << _tools, registered >>
    /\ UNCHANGED besideRegistry

GetAll ==
    /\ reg_call' = [op |-> "get_all"]
    /\ reg_return' = get_all_tools(_tools)
    /\ UNCHANGED << _tools, registered >>
    /\ UNCHANGED besideRegistry

GetByNames(names) ==
    /\ reg_call' = [op |-> "get_by_names", arg |-> names]
    /\ reg_return' = get_by_names(_tools, names)
    /\ UNCHANGED << _tools, registered >>
    /\ UNCHANGED besideRegistry

NextRegistry ==
    \/ \E tool \in Capabilities : Register(tool)
    \/ \E name \in NamesKnown : Get(name)
    \/ GetAll
    \/ \E names \in NameLists : GetByNames(names)

SpecRegistry == InitRegistry /\ [][NextRegistry]_vars

\* the names registered so far, and the last capability registered under one
RegisteredNames == { registered[i].name : i \in DOMAIN registered }
LastRegistered(name) ==
    registered[CHOOSE i \in DOMAIN registered :
                   /\ registered[i].name = name
                   /\ \A j \in DOMAIN registered : registered[j].name = name => j <= i]
\* the capabilities now registered, each at the place of its registration
RECURSIVE InRegistrationOrder(_)
InRegistrationOrder(i) ==
    IF i > Len(registered) THEN << >>
    ELSE (IF \E j \in (i + 1)..Len(registered) : registered[j].name = registered[i].name
          THEN << >> ELSE << registered[i] >>)
         \o InRegistrationOrder(i + 1)

\* C17: after any sequence of register calls there is exactly one entry per
\* distinct name registered, and get(name) gives the capability registered
\* last under that name.
C17_LastWriteWins ==
    /\ Len(_tools) = Cardinality(RegisteredNames)
    /\ \A i \in DOMAIN _tools : \A j \in DOMAIN _tools :
           _tools[i].key = _tools[j].key => i = j
    /\ \A name \in RegisteredNames : get(_tools, name) = LastRegistered(name)
    /\ (reg_call.op = "get" /\ reg_call.arg \in RegisteredNames)
           => reg_return = LastRegistered(reg_call.arg)

\* C17 witness: two capabilities were registered under one name and get
\* returned the second.
C17_Witness ==
    /\ registered = << Capability("calculator", "first"),
                       Capability("calculator", "second") >>
    /\ reg_call = [op |-> "get", arg |-> "calculator"]
    /\ reg_return = Capability("calculator", "second")
    /\ Len(_tools) = 1

\* C18: get_all returns every capability now registered exactly once, in
\* the order of their registrations.
C18_RegistrationOrder ==
    reg_call.op = "get_all" => reg_return = InRegistrationOrder(1)

\* C19 (as an action): a get_by_names call returns, for the names asked in
\* their order, the capability registered under each name that is
\* registered, nothing for the others, and leaves the registry as it was.
C19_ProjectionAction ==
    reg_call'.op = "get_by_names" =>
        LET names == reg_call'.arg
            known == SelectSeq(names, LAMBDA n : n \in RegisteredNames)
        IN /\ reg_return' = [i \in DOMAIN known |-> LastRegistered(known[i])]
           /\ \A i \in DOMAIN reg_return' : reg_return'[i].name \in RegisteredNames
           /\ _tools' = _tools
           /\ registered' = registered

\* C19: get_by_names returns exactly the registered capabilities whose names
\* are asked, drops unknown names without raising, and does not change the
\* registry.
C19_Projection == [][C19_ProjectionAction]_vars

\* C19 witness: an unknown and a registered name were asked, and only the
\* registered capability came back.
C19_Witness ==
    /\ reg_call = [op |-> "get_by_names", arg |-> << "nope", "calculator" >>]
    /\ reg_return = << Capability("calculator", "second") >>
    /\ Len(registered) = 3

(***************************************************************************)
(* The prompt builders applied to capability lists.                        *)
(***************************************************************************)
\* longest capability list rendered
MaxTools == 3

\* the names registered at import (app/tools/__init__.py lines 44-48)
ToolNames ==
    {"calculator", "web_search", "news_search", "web_scraper", "web_summarizer"}
ToolLists == UNION { [1..k -> ToolNames] : k \in 0..MaxTools }

InitPrompt ==
    /\ tools \in ToolLists
    /\ prompt_pc = "input"
    /\ tools_prompt = << >>
    /\ system_prompt = << >>
    /\ ChatIdle /\ ScrapeIdle /\ RegistryIdle /\ CodecIdle
    /\ SessionIdle /\ SearchIdle /\ ExecutorIdle

\* build_tools_prompt(tools) and build_system_prompt_with_tools(tools)
BuildPrompts ==
    /\ prompt_pc = "input"
    /\ tools_prompt' = build_tools_prompt(tools)
    /\ system_prompt' = build_system_prompt_with_tools(tools)
    /\ prompt_pc' = "built"
    /\ UNCHANGED tools
    /\ UNCHANGED << chatVars, scrapeVars, registryVars, codecVars,
                    sessionVars, searchVars, executorVars >>

NextPrompt == BuildPrompts

SpecPrompt == InitPrompt /\ [][NextPrompt]_vars

\* the capability headings of a rendered block, in order
Headings(lines) ==
    LET heads == SelectSeq(lines, LAMBDA ln : ln.l = "tool")
    IN [i \in DOMAIN heads |-> heads[i].name]
\* the parameter lines of a rendered block, in order
ParameterLines(lines) == SelectSeq(lines, LAMBDA ln : ln.l = "param")
\* the declared parameters of the capabilities of a list, in order
RECURSIVE Declared(_, _)
Declared(names, i) ==
    IF i > Len(names) THEN << >>
    ELSE ToolParameters(names[i]) \o Declared(names, i + 1)
RequiredWord(param) == IF param.required THEN "required" ELSE "optional"

\* C20: the rendered block lists the capabilities of the list once each in
\* the order of the list, under each capability its declared parameters in
\* declaration order with their required-ness, and the system prompt is the
\* preamble alone when the list is empty (the preamble followed by the block
\* otherwise).
C20_PromptListsCapabilities ==
    prompt_pc = "built" =>
        /\ Headings(tools_prompt) = tools
        /\ LET declared == Declared(tools, 1)
               listed == ParameterLines(tools_prompt)
           IN /\ Len(listed) = Len(declared)
              /\ \A i \in DOMAIN declared :
                    /\ listed[i].name = declared[i].name
                    /\ listed[i].type = declared[i].type
                    /\ listed[i].required = RequiredWord(declared[i])
        /\ \A p \in DOMAIN tools_prompt :
              tools_prompt[p].l = "tool" =>
                  LET params == ToolParameters(tools_prompt[p].name) IN
                  /\ \A j \in DOMAIN params :
                        /\ tools_prompt[p + 2 + j].l = "param"
                        /\ tools_prompt[p + 2 + j].name = params[j].name
                  /\ tools_prompt[p + 3 + Len(params)].l # "param"
        /\ tools = << >> => (tools_prompt = << >> /\ system_prompt = << [l |-> "base_prompt"] >>)
        /\ tools # << >> => system_prompt = << [l |-> "base_prompt"] >> \o tools_prompt

\* C20 witness: a list of two capabilities, one with optional parameters,
\* was rendered.
C20_Witness ==
    /\ prompt_pc = "built"
    /\ tools = << "web_search", "calculator" >>
    /\ Len(ParameterLines(tools_prompt)) = 4
    /\ ParameterLines(tools_prompt)[2].required = "optional"

(***************************************************************************)
(* Further properties of the orchestration loop.                           *)
(***************************************************************************)
\* what parse_tool_call_from_response gave for the reply last received
Parsed ==
    IF last_reply # Absent /\ last_reply.ok
    THEN parse_tool_call_from_response(last_reply.content)
    ELSE Absent
\* line 158, `if not tool_call`: the value is taken as a present invocation
PresentInvocation(p) == p.r = "found" /\ Truthy(p.v)
\* a Capability Invocation: a string name and a mapping of arguments
CapabilityInvocation(v) ==
    /\ v.j = "obj"
    /\ DictGet(v, "name", PyNone).j = "str"
    /\ DictGet(v, "arguments", PyNone).j = "obj"

\* C21: every value the codec hands to the loop as a present invocation is a
\* mapping with a string name and a mapping of arguments.
C21_ParsedIsInvocation ==
    PresentInvocation(Parsed) => CapabilityInvocation(Parsed.v)

\* C22: within a request the loop is sequential: a capability execution
\* starts only in the step that received and parsed a backend reply, the
\* executions started never outnumber the replies received, a backend
\* invocation starts only when the reply of the one before was received and
\* the execution it asked for has ended, and a backend invocation and a
\* capability execution are never in progress together.
BackendInProgress == pc = "await_backend"
ExecutionInProgress == pending.active
C22_SequentialAction ==
    /\ ~(BackendInProgress /\ ExecutionInProgress)
    /\ ~(BackendInProgress' /\ ExecutionInProgress')
    /\ ExecutionInProgress' => pc' = "await_tool"
    /\ exec_calls' # exec_calls =>
          /\ exec_calls' = exec_calls + 1
          /\ BackendInProgress /\ ~ExecutionInProgress
          /\ PresentInvocation(Parsed')
          /\ backend_calls' = backend_calls
          /\ exec_calls' <= RepliesReceived'
    /\ backend_calls' # backend_calls =>
          /\ backend_calls' = backend_calls + 1
          /\ BackendInProgress => PresentInvocation(Parsed')
          /\ ~BackendInProgress => (pc = "start" \/ ExecutionInProgress)
          /\ ~ExecutionInProgress'
          /\ exec_calls' = exec_calls
          /\ RepliesReceived' = backend_calls
C22_Sequential == [][C22_SequentialAction]_vars

\* C22 witness: the second execution is in progress, after two replies and
\* one finished execution.
C22_Witness ==
    /\ ExecutionInProgress
    /\ ~BackendInProgress
    /\ exec_calls = 2
    /\ backend_calls = 2
    /\ Len(tool_calls_made) >= 1

\* C24: an iteration that parsed an invocation appends two messages: an
\* assistant message with the raw reply, then a user message with
\* format_tool_result(name, result or error); backend invocation i is passed
\* the seeded conversation and 2*(i-1) more messages, the last with role user.
Seeded == _add_system_prompt_if_needed(Dumped, get_all(registry))
NamedInvocations == \A k \in DOMAIN invocations : invocations[k].name.j = "str"
CompletedBodies == IF pc = "await_tool" THEN Len(invocations) - 1 ELSE Len(invocations)
TopLevelDirective(content) ==
    /\ content.whole.ok
    /\ content.whole.doc.j = "obj"
    /\ "tool_call" \in DOMAIN content.whole.doc.kv
ReturnedAsFinal(content) ==
    /\ Finished
    /\ outcome.kind = "ChatResponse"
    /\ outcome.message.content = content
C25_DirectiveNeverFinal ==
    (last_reply # Absent /\ last_reply.ok) =>
        ~(TopLevelDirective(last_reply.content) /\ ReturnedAsFinal(last_reply.content))

\* C26: a request that ends in a failure ends in ProviderException or in
\* MaxIterationsException: the exhausted budget is MaxIterationsException,
\* every other failure (resolving the provider, the backend call, parsing
\* the reply, recording a tool call) is ProviderException.
BudgetExhausted ==
    /\ iterations = MAX_TOOL_ITERATIONS
    /\ Len(invocations) = MAX_TOOL_ITERATIONS
    /\ ~pending.active
    /\ pc # "await_backend"
ParseRaised == Parsed.r = "raise"
UnreadableDirective ==
    /\ PresentInvocation(Parsed)
    /\ \/ Parsed.v.j # "obj"
       \/ DictGet(Parsed.v, "arguments", JObj(EmptyDict)).j # "obj"
       \/ DictGet(Parsed.v, "name", PyNone).j # "str"
OtherFailure == ConfigFailure \/ BackendFailed \/ ParseRaised \/ UnreadableDirective
C26_FailureKinds ==
    Finished =>
        /\ outcome.kind \in {"ChatResponse", "ProviderException",
                             "MaxIterationsException"}
        /\ outcome.kind = "MaxIterationsException" <=>
              (BudgetExhausted /\ ~OtherFailure)
        /\ OtherFailure => outcome.kind = "ProviderException"
        /\ outcome.kind = "ChatResponse" => (backend_calls >= 1 /\ last_reply.ok)

\* C26 witness: the second reply carried a directive without a name, the
\* record of the tool call was refused and the endpoint has answered.
C26_Witness ==
    /\ pc = "responded"
    /\ backend_calls = 2
    /\ UnreadableDirective
    /\ outcome = WrapUnexpected("ValidationError", "validation error for ToolCallInfo")

(***************************************************************************)
(* Further properties of scrape_multiple_urls.                             *)
(***************************************************************************)
AllTargetsDone ==
    /\ \A i \in DOMAIN urls : tasks[i] = "done" /\ fetched[i] \in FetchOutcomes
    /\ InFlight = {}
    /\ Len(completed) = Len(urls)

\* C23: in the state where the aggregated result is returned every
\* per-target operation has ended, with success or with failure: none is
\* waiting for admission and none is in flight, and the step that returns
\* starts from such a state.
C23_JoinedAction ==
    /\ scrape_pc' = "returned" =>
          /\ AllTargetsDone'
          /\ Len(processed_results') = Len(urls)
          /\ \A i \in DOMAIN urls : processed_results'[i] # Absent
    /\ (scrape_pc # "returned" /\ scrape_pc' = "returned") => AllTargetsDone
C23_Joined == [][C23_JoinedAction]_vars

\* C23 witness: a call with three targets and one slot has returned; the
\* second target failed.
C23_Witness ==
    /\ scrape_pc = "returned"
    /\ Len(urls) = 3
    /\ max_concurrent = 1
    /\ fetched[2] = "HTTPStatusError"
    /\ fetched[3] = "ok"

\* C29: every call eventually returns, with every target admitted and ended
\* and every admission slot given back.
C29_EventuallyReturns ==
    <>(/\ scrape_pc = "returned"
       /\ AllTargetsDone
       /\ semaphore = max_concurrent)

\* C29 witness: a call with more targets than slots has returned after a
\* failed fetch, all slots free.
C29_Witness ==
    /\ scrape_pc = "returned"
    /\ Len(urls) > max_concurrent
    /\ semaphore = max_concurrent
    /\ \E i \in DOMAIN urls : fetched[i] = "HTTPStatusError"
    /\ completed # << >> /\ completed[1] # 1

(***************************************************************************)
(* One WebScraperService used by concurrent requests.  The tool objects    *)
(* are created once (app/tools/__init__.py, lines 43-48), each with one    *)
(* WebIntelligenceService and so one WebScraperService; every request that *)
(* executes the capability runs search_and_scrape on that object:          *)
(*     async with self.web_scraper as scraper:                             *)
(*         scraped_results = await scraper.scrape_multiple_urls(urls)      *)
(* A request is outside the block, inside it with `left` fetches to go,    *)
(* or has left it.  clients[c] counts the aclose calls on the c-th         *)
(* httpx.AsyncClient created; a client is open while the count is 0.       *)
(***************************************************************************)
\* requests executing the capability at the same time
MaxRequests == 2
\* targets of one fan-out
MaxFetches == 2

Scraper(at, opened, left) == [pc |-> at, opened |-> opened, left |-> left]
IsOpen(c) == clients[c] = 0

InitSession ==
    /\ session = 0
    /\ clients = << >>
    /\ scrapers \in [1..MaxRequests -> { Scraper("outside", 0, n) : n \in 1..MaxFetches }]
    /\ fetches = << >>
    /\ ChatIdle /\ ScrapeIdle /\ RegistryIdle /\ CodecIdle /\ PromptIdle
    /\ SearchIdle /\ ExecutorIdle

besideSession == << chatVars, scrapeVars, registryVars, codecVars, promptVars,
                    searchVars, executorVars >>

\* __aenter__, lines 44-50: a new client is created and assigned to
\* self.session, whatever self.session was
Enter(r) ==
    /\ scrapers[r].pc = "outside"
    /\ clients' = Append(clients, 0)
    /\ session' = Len(clients) + 1
    /\ scrapers' = [scrapers EXCEPT ![r] = Scraper("inside", session', @.left)]
    /\ UNCHANGED fetches

\* scrape_url, lines 72-75: self.session is read when the fetch starts;
\* a closed client refuses the request (RuntimeError, caught at line 137)
Fetch(r) ==
    /\ scrapers[r].pc = "inside"
    /\ scrapers[r].left > 0
    /\ fetches' = Append(fetches, [request |-> r, client |-> session,
                                   ok |-> session # 0 /\ IsOpen(session)])
    /\ scrapers' = [scrapers EXCEPT ![r].left = @ - 1]
    /\ UNCHANGED << session, clients >>

\* __aexit__, lines 52-54, after gather has joined the fan-out: the client
\* self.session names now is closed; self.session keeps naming it
Exit(r) ==
    /\ scrapers[r].pc = "inside"
    /\ scrapers[r].left = 0
    /\ clients' = IF session # 0
                  THEN [clients EXCEPT ![session] = @ + 1]
                  ELSE clients
    /\ scrapers' = [scrapers EXCEPT ![r].pc = "exited"]
    /\ UNCHANGED << session, fetches >>

NextSession ==
    \/ \E r \in DOMAIN scrapers : Enter(r) /\ UNCHANGED besideSession
    \/ \E r \in DOMAIN scrapers : Fetch(r) /\ UNCHANGED besideSession
    \/ \E r \in DOMAIN scrapers : Exit(r) /\ UNCHANGED besideSession

SpecSession == InitSession /\ [][NextSession]_vars

\* C27: no fetch of a request runs on a client that was closed; the client a
\* request opened stays open and is the one its fetches use until its
\* fan-out is joined; once every request has left the block every client
\* created was closed exactly once.
C27_SessionPerRequest ==
    /\ \A k \in DOMAIN fetches :
          /\ fetches[k].ok
          /\ fetches[k].client = scrapers[fetches[k].request].opened
    /\ \A r \in DOMAIN scrapers :
          scrapers[r].pc = "inside" => IsOpen(scrapers[r].opened)
    /\ (\A r \in DOMAIN scrapers : scrapers[r].pc = "exited") =>
          \A c \in DOMAIN clients : clients[c] = 1

(***************************************************************************)
(* WebSearch.execute and NewsSearch.execute: the search, the fan-out over  *)
(* the scrapable results and the list returned to the loop.  A URL is      *)
(* what urlparse and the suffix test see of it: scheme, netloc and the     *)
(* suffix of the whole string.  include_content is left at its default.    *)
(***************************************************************************)
\* results one search returns
MaxResults == 4

Url(scheme, netloc, suffix) == [scheme |-> scheme, netloc |-> netloc, suffix |-> suffix]
NoUrl == Url("", "", "")
ResultUrls ==
    { Url("https", "a.example", ".html"),
      Url("http", "b.example", ""),
      Url("https", "www.youtube.com", ""),
      Url("https", "c.example", ".pdf"),
      NoUrl }
SearchResult(url) == [url |-> url]

\* lines 259-260
excluded_extensions ==
    {".pdf", ".doc", ".docx", ".xls", ".xlsx", ".ppt", ".pptx", ".zip", ".rar"}
ExcludedDomain(netloc) == netloc \in {"www.youtube.com", "youtube.com", "youtu.be",
                                      "twitter.com", "facebook.com", "instagram.com"}

\* WebIntelligenceService._is_scrapable_url, lines 250-271
_is_scrapable_url(url) ==
    /\ url.suffix \notin excluded_extensions
    /\ ~ExcludedDomain(url.netloc)
    /\ url.scheme \in {"http", "https"}
    /\ url.netloc # ""

\* results[:n]
Slice(seq, n) == SubSeq(seq, 1, IF n < Len(seq) THEN n ELSE Len(seq))

\* search_and_scrape, lines 93-98
urls_to_scrape(hits, max_scrape_results) ==
    LET first == Slice(hits, max_scrape_results)
        kept == SelectSeq(first, LAMBDA res : res.url # NoUrl /\ _is_scrapable_url(res.url))
    IN [i \in DOMAIN kept |-> kept[i].url]

\* search_and_scrape, lines 80-121, the search done: fetch[i] is how the
\* fetch of the i-th URL handed to scrape_multiple_urls ends
search_and_scrape(hits, max_scrape_results, fetch) ==
    LET targets == urls_to_scrape(hits, max_scrape_results) IN
    IF targets = << >>
    THEN [search_results |-> hits, scraped_content |-> << >>,
          error |-> "No scrapable URLs found"]
    ELSE [search_results |-> hits,
          scraped_content |-> [i \in DOMAIN targets |-> scrape_url(targets[i], fetch[i])],
          error |-> None]

\* content[:limit]
Truncate(content, limit) ==
    [content EXCEPT !.chars = IF @ > limit THEN limit ELSE @]

\* web_search.py lines 86-101, news_search.py lines 88-103: result i takes
\* the content of scraped_content[i]
FormatResults(hits, scraped, limit) ==
    [i \in DOMAIN hits |->
        IF /\ i <= Len(scraped)
           /\ scraped[i].content.chars > 0 /\ scraped[i].error = None
        THEN [url |-> hits[i].url, full_content |-> Truncate(scraped[i].content, limit)]
        ELSE [url |-> hits[i].url]]

ResultLists ==
    UNION { [1..n -> { SearchResult(u) : u \in ResultUrls }] : n \in 0..MaxResults }

InitSearch ==
    /\ search_type \in {"web", "news"}
    /\ search_results \in ResultLists
    /\ search_pc = "searched"
    /\ scraped_content = << >>
    /\ formatted_results = << >>
    /\ ChatIdle /\ ScrapeIdle /\ RegistryIdle /\ CodecIdle /\ PromptIdle
    /\ SessionIdle /\ ExecutorIdle

besideSearch == << chatVars, scrapeVars, registryVars, codecVars, promptVars,
                   sessionVars, executorVars >>

\* execute from the return of the search on: max_results is the default (5
\* for web_search, 8 for news_search), max_scrape_results = min(max_results, 3)
Execute(limit) ==
    /\ search_pc = "searched"
    /\ \E fetch \in [1..3 -> FetchOutcomes] :
          LET result == search_and_scrape(search_results, 3, fetch) IN
          /\ scraped_content' = result.scraped_content
          /\ IF result.error # None
             THEN /\ formatted_results' = << >>
                  /\ search_pc' = "error"
             ELSE /\ formatted_results' =
                        FormatResults(result.search_results, result.scraped_content, limit)
                  /\ search_pc' = "formatted"
    /\ UNCHANGED << search_type, search_results >>

\* WebSearch.execute, lines 62-108
WebSearchExecute == search_type = "web" /\ Execute(2000)
\* NewsSearch.execute, lines 63-112
NewsSearchExecute == search_type = "news" /\ Execute(1500)

NextSearch ==
    \/ WebSearchExecute /\ UNCHANGED besideSearch
    \/ NewsSearchExecute /\ UNCHANGED besideSearch

SpecSearch == InitSearch /\ [][NextSearch]_vars

\* C28: in the list a search capability returns, the full_content attached
\* to a result is the content scraped from that result's own URL.
C28_ContentOfOwnUrl ==
    search_pc = "formatted" =>
        \A i \in DOMAIN formatted_results :
            "full_content" \in DOMAIN formatted_results[i] =>
                formatted_results[i].full_content.of = formatted_results[i].url

(***************************************************************************)
(* ToolExecutor.execute_tool_calls.  A tool call is a dict with the fields *)
(* the docstring names: id (str), name (str), arguments (a JSON string or  *)
(* a dict); each field may be missing.  An argument string is kept as the  *)
(* tokens json.loads reads.  The registry is the one of the process.       *)
(***************************************************************************)
\* tool calls in one list
MaxCalls == 3

ArgString(toks) == [j |-> "str", s |-> Join(toks), toks |-> toks]
ToolCall(kv) == JObj(kv)
ToolCallsKnown ==
    { ToolCall([id |-> JStr("c1"), name |-> JStr("calculator"),
                arguments |-> JObj([expression |-> JStr("2+2")])]),
      ToolCall([id |-> JStr("c2"), name |-> JStr("calculator"),
                arguments |-> ArgString(json_dumps(JObj([expression |-> JStr("2+2")])))]),
      ToolCall([id |-> JStr("c3"), name |-> JStr("calculator"),
                arguments |-> ArgString(<< "{", "oops" >>)]),
      ToolCall([id |-> JStr("c4"), name |-> JStr("calculator"),
                arguments |-> ArgString(json_dumps(JNum(5)))]),
      ToolCall([id |-> JStr("c5"), name |-> JStr("nope"),
                arguments |-> JObj(EmptyDict)]),
      ToolCall([id |-> JStr("c6"), name |-> JStr("calculator"),
                arguments |-> JObj([expression |-> JStr("x")])]),
      ToolCall([name |-> JStr("calculator")]),
      ToolCall([id |-> JStr("c8"), arguments |-> JObj([expression |-> JStr("2+2")])]) }

ToolCallLists == UNION { [1..n -> ToolCallsKnown] : n \in 0..MaxCalls }

ResultEntry(id, name, result, error) ==
    [tool_call_id |-> id, tool_name |-> name, result |-> result, error |-> error]

\* lines 38-50: arguments given as a string are parsed
ParseArguments(arguments) ==
    IF arguments.j = "str"
    THEN LET data == json_loads(arguments.toks) IN
         IF data.ok THEN Found(data.doc)
         ELSE Raised("JSONDecodeError", "Expecting value")
    ELSE Found(arguments)

\* line 68, tool.execute(**arguments): what the call can give; a value that
\* is no mapping cannot be unpacked
CallOutcomes(tool, arguments) ==
    IF arguments.j # "obj"
    THEN { Raised("TypeError", "argument after ** must be a mapping") }
    ELSE ExecuteOutcomes(tool, arguments)

\* the tool.execute the call leads to, if it leads to one
Awaited(call) ==
    LET arguments == ParseArguments(DictGet(call, "arguments", JObj(EmptyDict)))
        tool == RegistryGet(registry, DictGet(call, "name", JStr("")))
    IN IF arguments.r = "found" /\ tool.r = "found"
       THEN Found([tool |-> tool.v, arguments |-> arguments.v])
       ELSE Absent

\* mutant: a failure of execute is not caught
execute_tool_call_uncaught(call, out) ==
    LET tool_call_id == DictGet(call, "id", JStr("unknown"))
        tool_name == DictGet(call, "name", JStr(""))
        arguments == ParseArguments(DictGet(call, "arguments", JObj(EmptyDict)))
        tool == RegistryGet(registry, tool_name)
    IN CASE arguments.r = "raise" ->
              Found(ResultEntry(tool_call_id, tool_name, PyNone,
                                "argument parsing error: " \o arguments.msg))
         [] tool.r = "raise" -> tool
         [] tool.r = "none" ->
              Found(ResultEntry(tool_call_id, tool_name, PyNone,
                                "Tool '" \o NameRepr(tool_name) \o "' not found"))
         [] out.r = "raise" -> out
         [] OTHER ->
              Found(ResultEntry(tool_call_id, tool_name, out.v, None))

\* lines 33-83, the body of the for loop: the entry appended for one call,
\* or the failure that leaves the method; out is what tool.execute gave
\* when the call got that far
execute_tool_call(call, out) ==
    LET tool_call_id == DictGet(call, "id", JStr("unknown"))
        tool_name == DictGet(call, "name", JStr(""))
        arguments == ParseArguments(DictGet(call, "arguments", JObj(EmptyDict)))
        tool == RegistryGet(registry, tool_name)
    IN CASE arguments.r = "raise" ->
              Found(ResultEntry(tool_call_id, tool_name, PyNone,
                                "argument parsing error: " \o arguments.msg))
         [] tool.r = "raise" -> tool
         [] tool.r = "none" ->
              Found(ResultEntry(tool_call_id, tool_name, PyNone,
                                "Tool '" \o NameRepr(tool_name) \o "' not found"))
         [] out.r = "raise" ->
              Found(ResultEntry(tool_call_id, tool_name, PyNone, out.msg))
         [] OTHER ->
              Found(ResultEntry(tool_call_id, tool_name, out.v, None))

InitExecutor ==
    /\ tool_calls \in ToolCallLists
    /\ exec_pc = "loop"
    /\ executor_results = << >>
    /\ executed = << >>
    /\ ChatIdle /\ ScrapeIdle /\ RegistryIdle /\ CodecIdle /\ PromptIdle
    /\ SessionIdle /\ SearchIdle

besideExecutor == << chatVars, scrapeVars, registryVars, codecVars, promptVars,
                     sessionVars, searchVars >>

\* one pass of the for loop
ExecuteToolCall ==
    /\ exec_pc = "loop"
    /\ Len(executor_results) < Len(tool_calls)
    /\ LET at == Len(executor_results) + 1
           call == tool_calls[at]
           awaited == Awaited(call)
       IN \E out \in IF awaited.r = "found"
                     THEN CallOutcomes(awaited.v.tool, awaited.v.arguments)
                     ELSE { Absent } :
             LET done == execute_tool_call(call, out) IN
             /\ executed' = IF awaited.r = "found"
                            THEN Append(executed, [at |-> at, out |-> out])
                            ELSE executed
             /\ IF done.r = "raise"
                THEN /\ exec_pc' = "raised"
                     /\ UNCHANGED executor_results
                ELSE /\ executor_results' = Append(executor_results, done.v)
                     /\ UNCHANGED exec_pc
    /\ UNCHANGED tool_calls

\* line 85: return results
ReturnResults ==
    /\ exec_pc = "loop"
    /\ Len(executor_results) = Len(tool_calls)
    /\ exec_pc' = "returned"
    /\ UNCHANGED << tool_calls, executor_results, executed >>

NextExecutor ==
    \/ ExecuteToolCall /\ UNCHANGED besideExecutor
    \/ ReturnResults /\ UNCHANGED besideExecutor

SpecExecutor == InitExecutor /\ [][NextExecutor]_vars

\* what tool.execute gave for the call at position k, Absent when the call
\* did not get that far
OutcomeAt(k) ==
    IF \E e \in DOMAIN executed : executed[e].at = k
    THEN executed[CHOOSE e \in DOMAIN executed : executed[e].at = k].out
    ELSE Absent
Unparsable(call) ==
    ParseArguments(DictGet(call, "arguments", JObj(EmptyDict))).r = "raise"
UnknownTool(call) == RegistryGet(registry, DictGet(call, "name", JStr(""))).r = "none"

\* C30: execute_tool_calls does not raise; the list it builds has one entry
\* per call processed, in input order, with the call's id and name; a call
\* with an unparsable argument string, an unknown tool or a failing execute
\* gets result None and a non-empty error, a call whose execute returned
\* gets that result and no error; every call that names a registered tool
\* with parsable arguments is executed, whatever happened to the calls
\* before it; the list returned has as many entries as the input.
C30_OneEntryPerCall ==
    /\ exec_pc # "raised"
    /\ Len(executor_results) <= Len(tool_calls)
    /\ exec_pc = "returned" => Len(executor_results) = Len(tool_calls)
    /\ \A k \in DOMAIN executor_results :
          LET call == tool_calls[k]
              entry == executor_results[k]
              out == OutcomeAt(k)
          IN /\ entry.tool_call_id = DictGet(call, "id", JStr("unknown"))
             /\ entry.tool_name = DictGet(call, "name", JStr(""))
             /\ (Unparsable(call) \/ UnknownTool(call)) <=> out = Absent
             /\ (out = Absent \/ out.r = "raise") =>
                   /\ entry.result = PyNone
                   /\ entry.error \notin {None, ""}
             /\ (out # Absent /\ out.r = "found") =>
                   /\ entry.result = out.v
                   /\ entry.error = None

\* C30 witness: three calls were processed; the first had an unparsable
\* argument string, the second named an unknown tool, the third was executed
\* and returned.
C30_Witness ==
    /\ exec_pc = "returned"
    /\ Len(executor_results) = 3
    /\ Unparsable(tool_calls[1])
    /\ UnknownTool(tool_calls[2])
    /\ executor_results[1].error # None
    /\ executor_results[2].error # None
    /\ executor_results[3].error = None
    /\ executor_results[3].result.j = "obj"

====
